---- MODULE Spec2Model ----
(***************************************************************************)
(* Request/response correlation engine of the Interactive Brokers wrapper. *)
(*                                                                         *)
(* Two revisions of the engine live in the repository and both are         *)
(* modelled; the variable `wrapper' says which one a behaviour runs:       *)
(*   "IBBaseWrapper"  - IBBaseWrapper + IBMarketWrapper, used through      *)
(*                      request/market_data/market_data.h, pnl.h, ...      *)
(*   "IBWrapperBase"  - the monolithic IBWrapperBase, used through         *)
(*                      request/market_data/get_prices.h                   *)
(*                                                                         *)
(* Doubles are modelled by integers.  Positive tick prices are even, so    *)
(* the midpoint (bid + ask) / 2.0 is exact as (bid + ask) \div 2.          *)
(***************************************************************************)
EXTENDS Integers, Sequences, FiniteSets, TLC

\* ------------------------------------------------------------------ bounds
NumIds     == 2      \* request ids 1..NumIds
NumCallers == 2      \* caller threads
MaxCalls   == 2      \* synchronous calls started over a behaviour

\* Calls of nextOrderId() and announcements of nextValidId in one run.
MaxIdCalls == 3

MaxAnnouncements == 2

\* Threads connect() may start over one run; sleeps of 100 ms making the
\* wait window of ensureConnected().
MaxThreads == 2

MaxWaitTicks == 2

\* Threads using one ConcurrentQueue, and push() calls per producer.
NumProducers == 2

NumConsumers == 2

MaxPushes == 2

\* position() events between two positionEnd events.
MaxPositions == 2

Ids     == 1..NumIds
Callers == 1..NumCallers
Handles == 1..MaxCalls     \* one std::promise object per createPromise call

\* The TWS "value unavailable" sentinel (<cfloat> DBL_MAX), any value outside
\* the modelled price range.
DBL_MAX == 99

\* --------------------------------------------------------- MarketSnapshot
PriceTypes == {"LAST", "BID", "ASK", "SNAPSHOT", "QUOTES_ONLY", "GREEKS_ONLY"}

MarketSnapshot ==
  [bid |-> 0, ask |-> 0, last |-> 0, open |-> 0, close |-> 0, high |-> 0,
   low |-> 0,
   impliedVol |-> 0, delta |-> 0, gamma |-> 0, vega |-> 0, theta |-> 0,
   optPrice |-> 0, undPrice |-> 0, hasGreeks |-> FALSE,
   mode |-> "SNAPSHOT", fulfilled |-> FALSE, cancelled |-> FALSE,
   streaming |-> FALSE]

hasBidAsk(s) == s.bid > 0 /\ s.ask > 0

hasGreeksData(s) ==
  s.hasGreeks /\ s.impliedVol > 0 /\ s.optPrice > 0 /\ s.delta # 0

\* C++ bool -> int promotion and the bitwise & of snapshots.h:178.
BoolToInt(b) == IF b THEN 1 ELSE 0

BitAnd(x, y) == IF x = 1 /\ y = 1 THEN 1 ELSE 0

readyForFulfillSnapshotStrict(s) ==
  CASE s.mode = "LAST"        -> s.last > 0
    [] s.mode = "BID"         -> s.bid > 0
    [] s.mode = "ASK"         -> s.ask > 0
    [] s.mode = "QUOTES_ONLY" ->
         BitAnd(BoolToInt(s.bid > 0), BoolToInt(s.ask > 0)) # 0
    [] s.mode = "SNAPSHOT"    -> (s.bid > 0 /\ s.ask > 0)
    [] OTHER                  -> FALSE

readyForFulfillAnySide(s) ==
  CASE s.mode = "LAST"        -> s.last > 0
    [] s.mode = "BID"         -> s.bid > 0
    [] s.mode = "ASK"         -> s.ask > 0
    [] s.mode = "QUOTES_ONLY" ->
         BitAnd(BoolToInt(s.bid > 0), BoolToInt(s.ask > 0)) # 0
    [] s.mode = "SNAPSHOT"    -> (s.bid > 0 \/ s.ask > 0)
    [] OTHER                  -> FALSE

readyForFulfill(s) ==
  CASE s.mode = "LAST"        -> s.last > 0
    [] s.mode = "BID"         -> s.bid > 0
    [] s.mode = "ASK"         -> s.ask > 0
    [] s.mode = "QUOTES_ONLY" ->
         BitAnd(BoolToInt(s.bid > 0), BoolToInt(s.ask > 0)) # 0
    [] s.mode = "SNAPSHOT"    ->
         IF s.hasGreeks THEN (s.bid > 0 \/ s.ask > 0)
                        ELSE (s.bid > 0 /\ s.ask > 0)
    [] OTHER                  -> FALSE

\* ------------------------------------------------------------------ state
VARIABLES
  wrapper,          \* which revision of the engine this behaviour runs
  carried,          \* reqId -> the call that last prepared the record, and
                    \* the fields it holds from before that call (history)
  genericPromises,  \* reqId -> handle of the registered promise (std::any)
  promises,         \* handle -> the std::promise object and its shared state
  nextHandle,       \* handles allocated so far (createPromise calls)
  snapshotData,     \* reqId -> MarketSnapshot
  reqIdToContract,  \* ids with a Contract recorded
  subscribed,       \* ids for which reqMktData has been sent to TWS
  snapshotFlagged,  \* ids for which reqMktData(snapshot = true) was sent
  detailsRequested, \* ids for which reqContractDetails has been sent
  cancelMktData,    \* reqId -> number of cancelMktData calls issued
  readerThrew,      \* an exception escaped a callback on the reader thread
  mismatchLog,      \* promises named by a "type mismatch" LOG_ERROR
  pc,               \* caller -> position inside its synchronous call
  call,             \* caller -> the call in progress
  result,           \* caller -> how its last call ended
  rdSnap,           \* readiness check: the snapshot under test
  rdOut,            \* readiness check: what readyForFulfill() returned
  optionChains,     \* reqId -> sequence of ChainInfo staged for the id
  chainPending,     \* reqId -> reqSecDefOptParams requests TWS still answers
  chainParts,       \* reqId -> the parts merged into the staged entry (history)
  promiseMutex,     \* <<>> when free, <<t>> while thread t holds the lock
  reader,           \* reader thread: position inside contractDetails
  nextValidOrderId, \* std::atomic<int> nextValidOrderId
  issuedIds,        \* the ids returned by nextValidOrderId++, in order
  announce,         \* reader thread: position inside nextValidId
  connected,        \* client->isConnected()
  running,          \* std::atomic<bool> running
  reader_thread,    \* 0 when not joinable, else the thread the handle owns
  polling_thread,   \* the same for IBWrapperMonitor::polling_thread
  loops,            \* thread -> position of its reader loop
  pollers,          \* thread -> position of its polling loop
  signal,           \* EReaderOSSignal: a signal is pending
  main,             \* the thread calling connect / disconnect / ensureConnected
  initializing,     \* bool initializing
  aborted,          \* "no", or why std::terminate was called
  adopted,          \* nextValidId of the current connection was handled
  q_,               \* ConcurrentQueue: std::queue<T> q_
  stopped_,         \* ConcurrentQueue: bool stopped_
  m_,               \* ConcurrentQueue: std::mutex m_, <<>> or <<holder>>
  cvWaiters,        \* threads blocked inside cv_.wait
  qth,              \* queue user thread -> its call in progress
  pushLog,          \* elements in the order q_.push took them
  popLog,           \* elements in the order pop() removed them
  positionBuffer,   \* IBBaseWrapper: std::vector<PositionInfo> positionBuffer
  positionsFeed,    \* reqPositions: subscription open, positionEnd owed
  positionLog,      \* position events since the last positionEnd (history)
  running_,         \* OrderExecutor: std::atomic<bool> running_
  worker_,          \* OrderExecutor: the worker thread, where it is in run()
  owner,            \* the thread that owns the OrderExecutor
  executed,         \* requests handed to execute_, in order (history)
  knownOrderStatuses, \* IBWrapperMonitor: orderId -> status
  previous,         \* openOrderEnd: static map, the last snapshot
  reported,         \* orders reported by openOrder in this cycle (history)
  flagged           \* orders the last openOrderEnd warned about (log)

engineVars ==
  <<wrapper, carried, genericPromises, promises, nextHandle, snapshotData,
    reqIdToContract, subscribed, snapshotFlagged, detailsRequested,
    cancelMktData, readerThrew, mismatchLog, pc, call, result>>

readyVars == <<rdSnap, rdOut>>

chainVars == <<optionChains, chainPending, chainParts>>

\* What the market-data engine's steps do not touch.
mutexVars == <<promiseMutex, reader>>

idVars == <<nextValidOrderId, issuedIds, announce>>

connVars ==
  <<connected, running, reader_thread, polling_thread, loops, pollers,
    signal, main, initializing, aborted, adopted>>

queueVars == <<q_, stopped_, m_, cvWaiters, qth, pushLog, popLog>>

posVars == <<positionBuffer, positionsFeed, positionLog>>

execVars == <<running_, worker_, owner, executed>>

monVars == <<knownOrderStatuses, previous, reported, flagged>>

\* Account positions, the order executor and the order monitor.
appVars == <<posVars, execVars, monVars>>

\* The session around the engine: id allocator, connection, work queue.
sessionVars == <<idVars, connVars, queueVars, appVars>>

requestVars == <<engineVars, readyVars, chainVars, mutexVars>>

sideVars == <<readyVars, chainVars, mutexVars, sessionVars>>

vars == <<engineVars, readyVars, chainVars, mutexVars, sessionVars>>

Wrappers == {"IBBaseWrapper", "IBWrapperBase"}

\* ---------------------------------------------------------------- promises
\* Values carried by promises and results: the result type and, for a
\* MarketSnapshot, the snapshot itself.
NoValue == [kind |-> "none", snap |-> MarketSnapshot, chains |-> <<>>]

SnapshotValue(s) ==
  [kind |-> "MarketSnapshot", snap |-> s, chains |-> <<>>]

ContractValue ==
  [kind |-> "Contract", snap |-> MarketSnapshot, chains |-> <<>>]

DetailsValue ==
  [kind |-> "ContractDetails", snap |-> MarketSnapshot, chains |-> <<>>]

\* The aggregate cut down to its first exchange.
ChainValueFirstOnly(chs) ==
  [kind |-> "ChainInfoVector", snap |-> MarketSnapshot,
   chains |-> SubSeq(chs, 1, 1)]

\* std::vector<ChainInfo>, the aggregate of an option-chain request.
ChainValue(chs) ==
  [kind |-> "ChainInfoVector", snap |-> MarketSnapshot, chains |-> chs]

NoPromise ==
  [type |-> "none", id |-> 0, state |-> "none", value |-> NoValue,
   setCalls |-> 0]

\* std::make_shared<std::promise<ResultType>>() registered under reqId.
NewPromise(type, id) ==
  [type |-> type, id |-> id, state |-> "pending", value |-> NoValue,
   setCalls |-> 0]

\* ~promise(): the last shared_ptr owner lets go.  An unsatisfied promise
\* stores broken_promise in the shared state, which releases the future.
DestroyPromise(pr, h) ==
  IF pr[h].state = "pending" THEN [pr EXCEPT ![h].state = "broken"] ELSE pr

\* unordered_map::erase / operator[] on partial functions.
MapErase(m, k) == [x \in DOMAIN m \ {k} |-> m[x]]

MapPut(m, k, v) == [x \in DOMAIN m \cup {k} |-> IF x = k THEN v ELSE m[x]]

\* promise::set_value: satisfies a pending promise; on a promise that is
\* already satisfied it throws future_error and leaves the value alone.
SetValue(pr, h, v) ==
  IF pr[h].state = "pending"
    THEN [pr EXCEPT ![h].state = "set", ![h].value = v,
                    ![h].setCalls = @ + 1]
    ELSE [pr EXCEPT ![h].setCalls = @ + 1]

\* createPromise<ResultType>(reqId) for the promise object h:
\* genericPromises[reqId] = p replaces whatever was stored under reqId.
createPromise(gp, pr, h, type, id) ==
  LET pr1 == IF id \in DOMAIN gp THEN DestroyPromise(pr, gp[id]) ELSE pr
  IN  [gp |-> MapPut(gp, id, h),
       pr |-> [pr1 EXCEPT ![h] = NewPromise(type, id)]]

\* fulfillPromise with the final erase left out.
fulfillPromiseNoErase(w, gp, pr, id, type, v) ==
  IF id \notin DOMAIN gp
    THEN [gp |-> gp, pr |-> pr, threw |-> FALSE, mismatch |-> {}]
    ELSE [gp |-> gp,
          pr |-> IF pr[gp[id]].type = type THEN SetValue(pr, gp[id], v)
                                          ELSE pr,
          threw |-> (w = "IBWrapperBase" /\ pr[gp[id]].type = type
                     /\ pr[gp[id]].state # "pending"),
          mismatch |-> IF pr[gp[id]].type = type THEN {} ELSE {gp[id]}]

\* fulfillPromise<ResultType>(reqId, value), under promiseMutex.
\*   IBBaseWrapper: catch (...) around any_cast + set_value logs the
\*                  mismatch, then the entry is erased in every case.
\*   IBWrapperBase: catch (bad_any_cast) logs and returns without erasing;
\*                  any other exception (future_error) escapes.
\* Result: the map, the promise objects, whether an exception escaped, and
\* the promise a mismatch was logged for.
fulfillPromise(w, gp, pr, id, type, v) ==
  IF id \notin DOMAIN gp
    THEN [gp |-> gp, pr |-> pr, threw |-> FALSE, mismatch |-> {}]
    ELSE
      LET h == gp[id]
          match == pr[h].type = type
          canSet == pr[h].state = "pending"
      IN
      IF w = "IBBaseWrapper"
        THEN [gp |-> MapErase(gp, id),
              pr |-> DestroyPromise(
                       IF match THEN SetValue(pr, h, v) ELSE pr, h),
              threw |-> FALSE,
              mismatch |-> IF match THEN {} ELSE {h}]
        ELSE
          IF ~match
            THEN [gp |-> gp, pr |-> pr, threw |-> FALSE, mismatch |-> {h}]
            ELSE IF ~canSet
              THEN [gp |-> gp, pr |-> SetValue(pr, h, v), threw |-> TRUE,
                    mismatch |-> {}]
              ELSE [gp |-> MapErase(gp, id),
                    pr |-> DestroyPromise(SetValue(pr, h, v), h),
                    threw |-> FALSE, mismatch |-> {}]

\* ------------------------------------------------------- synchronous calls
\* The request helpers of each revision.  IBWrapperBase has no contract
\* helper of its own: "getContractDetails" stands there for the direct
\* getSync<Contract>(ib, reqId, reqContractDetails) call that its
\* contractDetails callback serves, and "getOptionChain" likewise for
\* getSync<std::vector<ChainInfo>>(ib, reqId, reqSecDefOptParams).
Helpers(w) ==
  IF w = "IBBaseWrapper"
    THEN {"getSnapshot", "getQuotes", "getGreeksOnly", "getLast", "getBid",
          "getAsk", "showCurrentPnL", "getContractDetails",
          "getOptionChain"}
    ELSE {"getSnapshot", "getLast", "getBid", "getAsk",
          "getContractDetails", "getOptionChain"}

HelperMode(helper) ==
  CASE helper = "getSnapshot"   -> "SNAPSHOT"
    [] helper = "getQuotes"     -> "QUOTES_ONLY"
    [] helper = "getGreeksOnly" -> "GREEKS_ONLY"
    [] helper = "getLast"       -> "LAST"
    [] helper = "getBid"        -> "BID"
    [] helper = "getAsk"        -> "ASK"
    [] OTHER                    -> "SNAPSHOT"

\* ResultType of the helper's getSync<ResultType>.
HelperType(helper) ==
  IF helper = "getContractDetails" THEN "Contract"
  ELSE IF helper = "getOptionChain" THEN "ChainInfoVector"
  ELSE IF helper = "getOpenPositions" THEN "PositionVector"
  ELSE "MarketSnapshot"

IsMarketHelper(helper) ==
  helper \notin {"getContractDetails", "getOptionChain"}

NoCall == [helper |-> "none", id |-> 0, streaming |-> FALSE, h |-> 0]

\* How a caller's last call ended: "value" (the delivered value),
\* "default" (result{} after a swallowed exception), or the exception
\* that left getSync ("timeout", "future_error", "send_error").
NoResult == "none"

\* What the helper does to snapshotData before it enters getSync.
\*   market_data.h: auto& snap = ib.snapshotData[reqId]; snap = {}; mode...
\*   get_prices.h:  auto& snap = ib.snapshotData[reqId]; snap.mode = ...
\*   pnl.h, ContractDetails.h, chain.h: nothing.
PrepareSnapshot(w, sd, helper, id, streaming) ==
  IF helper \in {"showCurrentPnL", "getContractDetails", "getOptionChain"}
    THEN sd
  ELSE IF w = "IBBaseWrapper"
    THEN MapPut(sd, id, [MarketSnapshot EXCEPT !.mode = HelperMode(helper),
                                               !.streaming = streaming])
    ELSE MapPut(sd, id,
                [(IF id \in DOMAIN sd THEN sd[id] ELSE MarketSnapshot)
                   EXCEPT !.mode = HelperMode(helper)])

\* The data members of MarketSnapshot that callbacks fill in.
DataFields ==
  {"bid", "ask", "last", "open", "close", "high", "low", "impliedVol",
   "delta", "gamma", "vega", "theta", "optPrice", "undPrice", "hasGreeks"}

NothingCarried == [h |-> 0, fields |-> {}]

\* The fields of the record under reqId that still hold what was merged
\* before the helper of call h ran: none after `snap = {}`, every field
\* that is not at its default when the helper only sets snap.mode.
CarriedOver(w, sd, before, helper, id, streaming, h) ==
  IF helper \in {"showCurrentPnL", "getContractDetails", "getOptionChain"}
    THEN before
    ELSE [h |-> h,
          fields |-> {F \in DataFields :
                        PrepareSnapshot(w, sd, helper, id, streaming)[id][F]
                          # MarketSnapshot[F]}]

\* The statements of getSync in program order.
GetSyncStepsSendFirst == <<"send", "create", "wait">>

GetSyncSteps == <<"create", "send", "wait">>

StepAfter(p) ==
  LET i == CHOOSE k \in 1..Len(GetSyncSteps) : GetSyncSteps[k] = p
  IN  IF i < Len(GetSyncSteps) THEN GetSyncSteps[i + 1] ELSE "wait"

\* The future goes out of scope when getSync is left.  The promise object
\* is then gone too unless genericPromises still holds its shared_ptr.
ReleaseFuture(gp, pr, h) ==
  IF \E i \in DOMAIN gp : gp[i] = h THEN pr
  ELSE [pr EXCEPT ![h] = [NoPromise EXCEPT !.state = "freed"]]

\* A caller thread enters a request helper.
StartCall(c, helper, id, streaming) ==
  /\ pc[c] = "idle"
  /\ nextHandle < MaxCalls
  /\ helper \in Helpers(wrapper)
  /\ streaming => helper = "getQuotes"
  /\ nextHandle' = nextHandle + 1
  /\ call' = [call EXCEPT ![c] = [helper |-> helper, id |-> id,
                                  streaming |-> streaming,
                                  h |-> nextHandle + 1]]
  /\ snapshotData' = PrepareSnapshot(wrapper, snapshotData, helper, id,
                                     streaming)
  /\ reqIdToContract' =
       IF wrapper = "IBBaseWrapper" /\ IsMarketHelper(helper)
          /\ helper # "showCurrentPnL"
         THEN reqIdToContract \cup {id} ELSE reqIdToContract
  /\ pc' = [pc EXCEPT ![c] = GetSyncSteps[1]]
  /\ carried' = [carried EXCEPT
                   ![id] = CarriedOver(wrapper, snapshotData, @, helper, id,
                                       streaming, nextHandle + 1)]
  /\ UNCHANGED <<wrapper, genericPromises, promises, subscribed, snapshotFlagged,
                 detailsRequested, cancelMktData, readerThrew, mismatchLog, result,
                 sideVars>>

\* getSync: auto fut = ib.createPromise<ResultType>(reqId);
GetSyncCreate(c) ==
  /\ pc[c] = "create"
  /\ LET r == createPromise(genericPromises, promises, call[c].h,
                            HelperType(call[c].helper), call[c].id)
     IN  /\ genericPromises' = r.gp
         /\ promises' = r.pr
  /\ pc' = [pc EXCEPT ![c] = StepAfter("create")]
  /\ UNCHANGED <<wrapper, carried, nextHandle, snapshotData, reqIdToContract,
                 subscribed, snapshotFlagged, detailsRequested,
                 cancelMktData, readerThrew, mismatchLog, call, result,
                 sideVars>>

\* The `snapshot' argument of the helper's reqMktData: true in pnl.h,
\* !streaming in getQuotes, false elsewhere.
SnapshotFlag(helper, streaming) ==
  \/ helper = "showCurrentPnL"
  \/ (helper = "getQuotes" /\ ~streaming)

\* getSync: sendRequest();  the lambda's reqMktData / reqContractDetails.
GetSyncSend(c) ==
  /\ pc[c] = "send"
  /\ IF IsMarketHelper(call[c].helper)
       THEN /\ subscribed' = subscribed \cup {call[c].id}
            /\ snapshotFlagged' =
                 IF SnapshotFlag(call[c].helper, call[c].streaming)
                   THEN snapshotFlagged \cup {call[c].id}
                   ELSE snapshotFlagged
            /\ UNCHANGED <<detailsRequested, chainPending>>
       ELSE IF call[c].helper = "getOptionChain"
         THEN /\ chainPending' = [chainPending EXCEPT ![call[c].id] = @ + 1]
              /\ UNCHANGED <<subscribed, snapshotFlagged, detailsRequested>>
         ELSE /\ detailsRequested' = detailsRequested \cup {call[c].id}
              /\ UNCHANGED <<subscribed, snapshotFlagged, chainPending>>
  /\ pc' = [pc EXCEPT ![c] = IF call[c].helper = "showCurrentPnL"
                               THEN "send2" ELSE StepAfter("send")]
  /\ UNCHANGED <<wrapper, carried, genericPromises, promises, nextHandle,
                 snapshotData, reqIdToContract, cancelMktData, readerThrew,
                 mismatchLog, call, result, readyVars, optionChains,
                 chainParts, mutexVars, sessionVars>>

\* pnl.h:45-46, the rest of showCurrentPnL's sendRequest lambda:
\* ib.reqIdToContract[reqId] = contract; ib.snapshotData[reqId] = {};
GetSyncSend2(c) ==
  /\ pc[c] = "send2"
  /\ reqIdToContract' = reqIdToContract \cup {call[c].id}
  /\ snapshotData' = MapPut(snapshotData, call[c].id, MarketSnapshot)
  /\ pc' = [pc EXCEPT ![c] = StepAfter("send")]
  /\ carried' = [carried EXCEPT
                   ![call[c].id] = [h |-> call[c].h, fields |-> {}]]
  /\ UNCHANGED <<wrapper, genericPromises, promises, nextHandle, subscribed,
                 snapshotFlagged, detailsRequested, cancelMktData,
                 readerThrew, mismatchLog, call, result, sideVars>>

\* getSync: sendRequest() throws.  Neither revision has a handler around
\* it: the exception leaves getSync at once.
GetSyncSendThrows(c) ==
  /\ pc[c] = "send"
  /\ result' = [result EXCEPT ![c] = "send_error"]
  /\ promises' = ReleaseFuture(genericPromises, promises, call[c].h)
  /\ pc' = [pc EXCEPT ![c] = "idle"]
  /\ call' = [call EXCEPT ![c] = NoCall]
  /\ UNCHANGED <<wrapper, carried, genericPromises, nextHandle,
                 snapshotData, reqIdToContract, subscribed, snapshotFlagged,
                 detailsRequested, cancelMktData, readerThrew, mismatchLog,
                 sideVars>>

\* How getSync ends once the future is ready.
\*   IBBaseWrapper: try { result = fut.get(); } catch (std::exception&) {}
\*                  return result;            (result{} on broken_promise)
\*   IBWrapperBase: return future.get();      (future_error propagates)
GetSyncOutcome(w, p) ==
  IF p.state = "set" THEN "value"
  ELSE IF w = "IBBaseWrapper" THEN "default" ELSE "future_error"

\* getSync: the future became ready (value or broken_promise).
GetSyncReturn(c) ==
  /\ pc[c] = "wait"
  /\ promises[call[c].h].state \in {"set", "broken"}
  /\ result' = [result EXCEPT
                  ![c] = GetSyncOutcome(wrapper, promises[call[c].h])]
  /\ promises' = ReleaseFuture(genericPromises, promises, call[c].h)
  /\ pc' = [pc EXCEPT ![c] = "idle"]
  /\ call' = [call EXCEPT ![c] = NoCall]
  /\ UNCHANGED <<wrapper, carried, genericPromises, nextHandle,
                 snapshotData, reqIdToContract, subscribed, snapshotFlagged,
                 detailsRequested, cancelMktData, readerThrew, mismatchLog,
                 sideVars>>

\* IBWrapperBase::getSync: wait_for(5 s) == timeout -> throw runtime_error.
\* IBBaseWrapper::getSync has no timed wait (fut.get() only).
GetSyncTimeout(c) ==
  /\ pc[c] = "wait"
  /\ wrapper = "IBWrapperBase"
  /\ promises[call[c].h].state = "pending"
  /\ result' = [result EXCEPT ![c] = "timeout"]
  /\ promises' = ReleaseFuture(genericPromises, promises, call[c].h)
  /\ pc' = [pc EXCEPT ![c] = "idle"]
  /\ call' = [call EXCEPT ![c] = NoCall]
  /\ UNCHANGED <<wrapper, carried, genericPromises, nextHandle,
                 snapshotData, reqIdToContract, subscribed, snapshotFlagged,
                 detailsRequested, cancelMktData, readerThrew, mismatchLog,
                 sideVars>>

\* ------------------------------------------------- reader-thread callbacks
\* TickType values the price switch distinguishes; "OTHER" is any type that
\* falls to `default: break'.
TickFields ==
  {"BID", "ASK", "LAST", "DELAYED_LAST", "OPEN", "CLOSE", "HIGH", "LOW",
   "OTHER"}

\* switch (field) { case BID: snap.bid = price; ... }
SetPriceField(s, field, price) ==
  CASE field = "BID"                    -> [s EXCEPT !.bid = price]
    [] field = "ASK"                    -> [s EXCEPT !.ask = price]
    [] field \in {"LAST", "DELAYED_LAST"} -> [s EXCEPT !.last = price]
    [] field = "OPEN"                   -> [s EXCEPT !.open = price]
    [] field = "CLOSE"                  -> [s EXCEPT !.close = price]
    [] field = "HIGH"                   -> [s EXCEPT !.high = price]
    [] field = "LOW"                    -> [s EXCEPT !.low = price]
    [] OTHER                            -> s

\* The guard at the top of tickPrice:
\*   IBMarketWrapper: if (price < 0) return;
\*   IBWrapperBase:   if (price <= 0) return;
PriceRejected(w, price) ==
  IF w = "IBBaseWrapper" THEN price < 0 ELSE price <= 0

\* if (snap.last <= 0 && snap.hasBidAsk()) snap.last = (bid + ask) / 2.0;
MidpointLast(s) ==
  IF s.last <= 0 /\ hasBidAsk(s)
    THEN [s EXCEPT !.last = (s.bid + s.ask) \div 2] ELSE s

\* The record after the delivery block: cancelled is set for a one-shot.
AfterCancel(s) ==
  IF ~s.streaming /\ ~s.cancelled THEN [s EXCEPT !.cancelled = TRUE] ELSE s

CancelIssuedUnguarded(s) == TRUE

CancelIssued(s) == ~s.streaming /\ ~s.cancelled

\* The delivery block with the final snapshotData.erase(it) left out.
DeliverReadyKeepRecord(id, snap) ==
  LET s1 == [snap EXCEPT !.fulfilled = TRUE]
      r  == fulfillPromise(wrapper, genericPromises, promises, id,
                           "MarketSnapshot", SnapshotValue(s1))
  IN  /\ genericPromises' = r.gp
      /\ promises' = r.pr
      /\ readerThrew' = (readerThrew \/ r.threw)
      /\ mismatchLog' = mismatchLog \cup r.mismatch
      /\ cancelMktData' =
           IF CancelIssued(s1)
             THEN [cancelMktData EXCEPT ![id] = @ + 1] ELSE cancelMktData
      /\ snapshotData' = [snapshotData EXCEPT ![id] = AfterCancel(s1)]

\* The delivery block with snap.fulfilled = true left out.
DeliverReadyNotMarked(id, snap) ==
  LET r == fulfillPromise(wrapper, genericPromises, promises, id,
                          "MarketSnapshot", SnapshotValue(snap))
  IN  /\ genericPromises' = r.gp
      /\ promises' = r.pr
      /\ readerThrew' = (readerThrew \/ r.threw)
      /\ mismatchLog' = mismatchLog \cup r.mismatch
      /\ cancelMktData' =
           IF CancelIssued(snap)
             THEN [cancelMktData EXCEPT ![id] = @ + 1] ELSE cancelMktData
      /\ snapshotData' =
           IF ~snap.streaming THEN MapErase(snapshotData, id)
           ELSE [snapshotData EXCEPT ![id] = AfterCancel(snap)]

\* The delivery block shared by tickPrice (after the midpoint fix) and
\* tickOptionComputation: snap.fulfilled = true; fulfillPromise(id, snap);
\* cancelMktData + cancelled for a one-shot; erase unless streaming.
DeliverReady(id, snap) ==
  LET s1 == [snap EXCEPT !.fulfilled = TRUE]
      r  == fulfillPromise(wrapper, genericPromises, promises, id,
                           "MarketSnapshot", SnapshotValue(s1))
  IN  /\ genericPromises' = r.gp
      /\ promises' = r.pr
      /\ readerThrew' = (readerThrew \/ r.threw)
      /\ mismatchLog' = mismatchLog \cup r.mismatch
      /\ cancelMktData' =
           IF CancelIssued(s1)
             THEN [cancelMktData EXCEPT ![id] = @ + 1] ELSE cancelMktData
      /\ snapshotData' =
           IF ~s1.streaming THEN MapErase(snapshotData, id)
           ELSE [snapshotData EXCEPT ![id] = AfterCancel(s1)]

\* The members one accepted tickPrice assigns: the switch case, and last
\* when the delivery block computes the midpoint.
PriceWrites(s, field, price) ==
  LET snap == SetPriceField(s, field, price)
      case == CASE field = "BID" -> {"bid"}
                [] field = "ASK" -> {"ask"}
                [] field \in {"LAST", "DELAYED_LAST"} -> {"last"}
                [] field = "OPEN" -> {"open"}
                [] field = "CLOSE" -> {"close"}
                [] field = "HIGH" -> {"high"}
                [] field = "LOW" -> {"low"}
                [] OTHER -> {}
  IN  case \cup (IF /\ ~snap.fulfilled
                    /\ readyForFulfill(snap)
                    /\ MidpointLast(snap) # snap
                   THEN {"last"} ELSE {})

\* tickPrice(tickerId, field, price, attrib)
tickPrice(id, field, price) ==
  /\ id \in subscribed
  /\ IF PriceRejected(wrapper, price) \/ id \notin DOMAIN snapshotData
       THEN UNCHANGED <<genericPromises, promises, readerThrew, mismatchLog,
                        cancelMktData, snapshotData>>
       ELSE LET snap == SetPriceField(snapshotData[id], field, price)
            IN  IF ~snap.fulfilled /\ readyForFulfill(snap)
                  THEN DeliverReady(id, MidpointLast(snap))
                  ELSE /\ snapshotData' = [snapshotData EXCEPT ![id] = snap]
                       /\ UNCHANGED <<genericPromises, promises, readerThrew, mismatchLog,
                                      cancelMktData>>
  /\ carried' =
       IF PriceRejected(wrapper, price) \/ id \notin DOMAIN snapshotData
         THEN carried
         ELSE [carried EXCEPT
                 ![id].fields =
                   @ \ PriceWrites(snapshotData[id], field, price)]
  /\ UNCHANGED <<wrapper, nextHandle, reqIdToContract, subscribed,
                 snapshotFlagged, detailsRequested, pc, call, result,
                 sideVars>>

\* if (snap.fulfilled) { snapshotData.erase(it); return; }
AlreadyFulfilledOrUnready(snap) == snap.fulfilled \/ ~readyForFulfill(snap)

AlreadyFulfilled(snap) == snap.fulfilled

\* tickSnapshotEnd(reqId)
tickSnapshotEnd(id) ==
  /\ id \in snapshotFlagged
  /\ IF id \notin DOMAIN snapshotData
       THEN UNCHANGED <<genericPromises, promises, readerThrew, mismatchLog,
                        cancelMktData, snapshotData>>
       ELSE LET snap == snapshotData[id]
            IN  IF AlreadyFulfilled(snap)
                  THEN /\ snapshotData' = MapErase(snapshotData, id)
                       /\ UNCHANGED <<genericPromises, promises, readerThrew, mismatchLog,
                                      cancelMktData>>
                  ELSE
                    LET s1 == IF readyForFulfill(snap)
                                THEN [snap EXCEPT !.fulfilled = TRUE]
                                ELSE snap
                        r  == fulfillPromise(wrapper, genericPromises,
                                promises, id, "MarketSnapshot",
                                SnapshotValue(s1))
                    IN  /\ genericPromises' = r.gp
                        /\ promises' = r.pr
                        /\ readerThrew' = (readerThrew \/ r.threw)
                        /\ mismatchLog' = mismatchLog \cup r.mismatch
                        /\ cancelMktData' =
                             IF CancelIssued(s1)
                               THEN [cancelMktData EXCEPT ![id] = @ + 1]
                               ELSE cancelMktData
                        /\ snapshotData' = MapErase(snapshotData, id)
  /\ UNCHANGED <<wrapper, carried, nextHandle, reqIdToContract, subscribed,
                 snapshotFlagged, detailsRequested, pc, call, result,
                 sideVars>>

\* The model values of one tickOptionComputation event (pvDividend and
\* tickType are not read by the handler).
OptionTick(iv, delta, optPrice, gamma, vega, theta, undPrice) ==
  [impliedVol |-> iv, delta |-> delta, optPrice |-> optPrice,
   gamma |-> gamma, vega |-> vega, theta |-> theta, undPrice |-> undPrice]

\* Step 1 and step 2 of tickOptionComputation: empty and partial ticks.
OptionTickIgnoredEmptyOnly(t) ==
  t.impliedVol = DBL_MAX /\ t.delta = DBL_MAX /\ t.gamma = DBL_MAX
  /\ t.vega = DBL_MAX /\ t.theta = DBL_MAX /\ t.optPrice = DBL_MAX

OptionTickIgnored(t) ==
  \/ (t.impliedVol = DBL_MAX /\ t.delta = DBL_MAX /\ t.gamma = DBL_MAX
      /\ t.vega = DBL_MAX /\ t.theta = DBL_MAX /\ t.optPrice = DBL_MAX)
  \/ (t.delta = DBL_MAX \/ t.optPrice = DBL_MAX)

\* x == DBL_MAX ? 0.0 : x
Unsentinel(x) == IF x = DBL_MAX THEN 0 ELSE x

\* The members "Fill Greeks fields" assigns.
GreekFields ==
  {"impliedVol", "delta", "gamma", "vega", "theta", "optPrice", "undPrice",
   "hasGreeks"}

\* "Fill Greeks fields"
MergeGreeks(s, t) ==
  [s EXCEPT !.impliedVol = Unsentinel(t.impliedVol),
            !.delta      = Unsentinel(t.delta),
            !.gamma      = Unsentinel(t.gamma),
            !.vega       = Unsentinel(t.vega),
            !.theta      = Unsentinel(t.theta),
            !.optPrice   = Unsentinel(t.optPrice),
            !.undPrice   = Unsentinel(t.undPrice),
            !.hasGreeks  = TRUE]

\* tickOptionComputation(tickerId, ..., impliedVol, delta, optPrice, ...)
tickOptionComputation(id, t) ==
  /\ id \in subscribed
  /\ IF \/ OptionTickIgnored(t)
        \/ id \notin DOMAIN snapshotData
        \/ snapshotData[id].mode = "QUOTES_ONLY"
       THEN UNCHANGED <<genericPromises, promises, readerThrew, mismatchLog,
                        cancelMktData, snapshotData>>
       ELSE LET snap == MergeGreeks(snapshotData[id], t)
            IN  IF ~snap.fulfilled /\ readyForFulfill(snap)
                  THEN DeliverReady(id, snap)
                  ELSE /\ snapshotData' = [snapshotData EXCEPT ![id] = snap]
                       /\ UNCHANGED <<genericPromises, promises, readerThrew, mismatchLog,
                                      cancelMktData>>
  /\ carried' =
       IF \/ OptionTickIgnored(t)
          \/ id \notin DOMAIN snapshotData
          \/ snapshotData[id].mode = "QUOTES_ONLY"
         THEN carried
         ELSE [carried EXCEPT ![id].fields = @ \ GreekFields]
  /\ UNCHANGED <<wrapper, nextHandle, reqIdToContract, subscribed,
                 snapshotFlagged, detailsRequested, pc, call, result,
                 sideVars>>

\* contractDetails(reqId, details): first the promise<ContractDetails>
\* attempt under the lock (only bad_any_cast is caught), then
\* fulfillPromise<Contract>(reqId, details.contract).
contractDetails(id) ==
  /\ id \in detailsRequested
  /\ LET found == id \in DOMAIN genericPromises
         full  == found /\ promises[genericPromises[id]].type
                             = "ContractDetails"
         r     == IF full
                    THEN [gp |-> MapErase(genericPromises, id),
                          pr |-> DestroyPromise(
                                   SetValue(promises, genericPromises[id],
                                            DetailsValue),
                                   genericPromises[id]),
                          threw |-> promises[genericPromises[id]].state
                                      # "pending",
                          mismatch |-> {}]
                    ELSE fulfillPromise(wrapper, genericPromises, promises,
                                        id, "Contract", ContractValue)
     IN  /\ genericPromises' = r.gp
         /\ promises' = r.pr
         /\ readerThrew' = (readerThrew \/ r.threw)
         /\ mismatchLog' = mismatchLog \cup r.mismatch
  /\ UNCHANGED <<wrapper, carried, nextHandle, snapshotData, reqIdToContract,
                 subscribed, snapshotFlagged, detailsRequested,
                 cancelMktData, pc, call, result, sideVars>>

\* One securityDefinitionOptionalParameter event as a ChainInfo
\* (tradingClass and multiplier are copied and never read back).
ChainInfo(exchange, expirations, strikes) ==
  [exchange |-> exchange, expirations |-> expirations, strikes |-> strikes]

\* auto& chains = optionChains[reqId]: the staged vector, created empty
\* when the id has none.
StagedChains(oc, id) == IF id \in DOMAIN oc THEN oc[id] ELSE <<>>

\* find_if on the exchange; push_back a new ChainInfo or merge the
\* expirations and strikes into the one found.
MergeChainPartAppend(chains, part) == Append(chains, part)

MergeChainPart(chains, part) ==
  IF \E i \in 1..Len(chains) : chains[i].exchange = part.exchange
    THEN LET i == CHOOSE k \in 1..Len(chains) :
                    chains[k].exchange = part.exchange
         IN  [chains EXCEPT
                ![i].expirations = @ \cup part.expirations,
                ![i].strikes = @ \cup part.strikes]
    ELSE Append(chains, part)

\* securityDefinitionOptionalParameter(reqId, exchange, ..., expirations,
\* strikes).  TWS sends parts only for a request it still answers.
securityDefinitionOptionalParameter(id, part) ==
  /\ chainPending[id] > 0
  /\ optionChains' =
       MapPut(optionChains, id,
              MergeChainPart(StagedChains(optionChains, id), part))
  /\ chainParts' = [chainParts EXCEPT ![id] = @ \cup {part}]
  /\ UNCHANGED <<engineVars, readyVars, chainPending, mutexVars,
                 sessionVars>>

\* securityDefinitionOptionalParameterEnd(reqId): the terminal event of
\* one request.
securityDefinitionOptionalParameterEnd(id) ==
  /\ chainPending[id] > 0
  /\ chainPending' = [chainPending EXCEPT ![id] = @ - 1]
  /\ IF id \notin DOMAIN optionChains
       THEN UNCHANGED <<genericPromises, promises, readerThrew, mismatchLog,
                        optionChains, chainParts>>
       ELSE LET r == fulfillPromise(wrapper, genericPromises, promises, id,
                                    "ChainInfoVector",
                                    ChainValue(optionChains[id]))
            IN  /\ genericPromises' = r.gp
                /\ promises' = r.pr
                /\ readerThrew' = (readerThrew \/ r.threw)
                /\ mismatchLog' = mismatchLog \cup r.mismatch
                /\ optionChains' = IF r.threw THEN optionChains
                                   ELSE MapErase(optionChains, id)
                /\ chainParts' = IF r.threw THEN chainParts
                                 ELSE [chainParts EXCEPT ![id] = {}]
  /\ UNCHANGED <<wrapper, carried, nextHandle, snapshotData, reqIdToContract,
                 subscribed, snapshotFlagged, detailsRequested,
                 cancelMktData, pc, call, result, readyVars, mutexVars,
                 sessionVars>>

\* ------------------------------------------------------------ promiseMutex
\* The statements of createPromise, fulfillPromise and contractDetails one
\* by one, with std::lock_guard<std::mutex> lock(promiseMutex) as a step.
\* Thread ids: a caller is its number, the reader thread is ReaderThread.
ReaderThread == 0

ReaderIdle == [pc |-> "idle", id |-> 0, fulfilled |-> FALSE]

\* lock_guard constructor: mutex::lock() returns once the mutex is free.
LockFree(m) == m = <<>>

LockGuardAcquire(t) == <<t>>

\* A scope exit that forgets the lock.
LockGuardLeak(m) == m

\* lock_guard destructor at the end of the enclosing scope.
LockGuardRelease(m) == <<>>

\* createPromise with the insert ahead of the lock_guard.
CreatePromiseStepsUnlocked == <<"cp_insert", "cp_lock", "cp_unlock">>

\* createPromise after make_shared / get_future: lock, insert, unlock.
CreatePromiseSteps == <<"cp_lock", "cp_insert", "cp_unlock">>

CreateStepAfter(p) ==
  LET i == CHOOSE k \in 1..Len(CreatePromiseSteps) :
                CreatePromiseSteps[k] = p
  IN  IF i < Len(CreatePromiseSteps) THEN CreatePromiseSteps[i + 1]
      ELSE StepAfter("create")

\* auto p = std::make_shared<std::promise<ResultType>>();
\* auto f = p->get_future();
CreateBegin(c) ==
  /\ pc[c] = "create"
  /\ pc' = [pc EXCEPT ![c] = CreatePromiseSteps[1]]
  /\ UNCHANGED <<wrapper, carried, genericPromises, promises, nextHandle,
                 snapshotData, reqIdToContract, subscribed, snapshotFlagged,
                 detailsRequested, cancelMktData, readerThrew, mismatchLog,
                 call, result, sideVars>>

\* std::lock_guard<std::mutex> lock(promiseMutex);
CreateLock(c) ==
  /\ pc[c] = "cp_lock"
  /\ LockFree(promiseMutex)
  /\ promiseMutex' = LockGuardAcquire(c)
  /\ pc' = [pc EXCEPT ![c] = CreateStepAfter("cp_lock")]
  /\ UNCHANGED <<wrapper, carried, genericPromises, promises, nextHandle,
                 snapshotData, reqIdToContract, subscribed, snapshotFlagged,
                 detailsRequested, cancelMktData, readerThrew, mismatchLog,
                 call, result, readyVars, chainVars, reader,
                 sessionVars>>

\* genericPromises[reqId] = p;
CreateInsert(c) ==
  /\ pc[c] = "cp_insert"
  /\ LET r == createPromise(genericPromises, promises, call[c].h,
                            HelperType(call[c].helper), call[c].id)
     IN  /\ genericPromises' = r.gp
         /\ promises' = r.pr
  /\ pc' = [pc EXCEPT ![c] = CreateStepAfter("cp_insert")]
  /\ UNCHANGED <<wrapper, carried, nextHandle, snapshotData, reqIdToContract,
                 subscribed, snapshotFlagged, detailsRequested,
                 cancelMktData, readerThrew, mismatchLog, call, result,
                 sideVars>>

\* return f; the lock_guard goes out of scope.
CreateUnlock(c) ==
  /\ pc[c] = "cp_unlock"
  /\ promiseMutex' = LockGuardRelease(promiseMutex)
  /\ pc' = [pc EXCEPT ![c] = CreateStepAfter("cp_unlock")]
  /\ UNCHANGED <<wrapper, carried, genericPromises, promises, nextHandle,
                 snapshotData, reqIdToContract, subscribed, snapshotFlagged,
                 detailsRequested, cancelMktData, readerThrew, mismatchLog,
                 call, result, readyVars, chainVars, reader,
                 sessionVars>>

\* What the steps of contractDetails leave alone.
readerFrame ==
  <<wrapper, carried, nextHandle, snapshotData, reqIdToContract, subscribed,
    snapshotFlagged, detailsRequested, cancelMktData, pc, call, result,
    readyVars, chainVars, sessionVars>>

\* The reader thread enters contractDetails(reqId, details).
DetailsBegin(id) ==
  /\ reader.pc = "idle"
  /\ id \in detailsRequested
  /\ reader' = [pc |-> "cd_lock", id |-> id, fulfilled |-> FALSE]
  /\ UNCHANGED <<readerFrame, genericPromises, promises, readerThrew,
                 mismatchLog, promiseMutex>>

\* { std::lock_guard<std::mutex> lock(promiseMutex);
DetailsLock ==
  /\ reader.pc = "cd_lock"
  /\ LockFree(promiseMutex)
  /\ promiseMutex' = LockGuardAcquire(ReaderThread)
  /\ reader' = [reader EXCEPT !.pc = "cd_try"]
  /\ UNCHANGED <<readerFrame, genericPromises, promises, readerThrew,
                 mismatchLog>>

\* Case 1 under the lock: find, any_cast to promise<ContractDetails>,
\* set_value, erase, fulfilled = true; bad_any_cast is caught.
DetailsTry ==
  /\ reader.pc = "cd_try"
  /\ LET id   == reader.id
         full == /\ id \in DOMAIN genericPromises
                 /\ promises[genericPromises[id]].type = "ContractDetails"
     IN  IF full
           THEN /\ genericPromises' = MapErase(genericPromises, id)
                /\ promises' =
                     DestroyPromise(SetValue(promises, genericPromises[id],
                                             DetailsValue),
                                    genericPromises[id])
                /\ reader' = [reader EXCEPT !.pc = "cd_unlock",
                                            !.fulfilled = TRUE]
           ELSE /\ reader' = [reader EXCEPT !.pc = "cd_unlock"]
                /\ UNCHANGED <<genericPromises, promises>>
  /\ UNCHANGED <<readerFrame, readerThrew, mismatchLog, promiseMutex>>

\* } the inner scope ends; if (!fulfilled) fulfillPromise(reqId, contract)
DetailsUnlock ==
  /\ reader.pc = "cd_unlock"
  /\ promiseMutex' = LockGuardRelease(promiseMutex)
  /\ reader' = IF reader.fulfilled THEN ReaderIdle
               ELSE [reader EXCEPT !.pc = "fp_lock"]
  /\ UNCHANGED <<readerFrame, genericPromises, promises, readerThrew,
                 mismatchLog>>

\* fulfillPromise: std::lock_guard<std::mutex> lock(promiseMutex);
FulfillLock ==
  /\ reader.pc = "fp_lock"
  /\ LockFree(promiseMutex)
  /\ promiseMutex' = LockGuardAcquire(ReaderThread)
  /\ reader' = [reader EXCEPT !.pc = "fp_body"]
  /\ UNCHANGED <<readerFrame, genericPromises, promises, readerThrew,
                 mismatchLog>>

\* fulfillPromise: find, any_cast, set_value, erase.
FulfillBody ==
  /\ reader.pc = "fp_body"
  /\ LET r == fulfillPromise(wrapper, genericPromises, promises, reader.id,
                             "Contract", ContractValue)
     IN  /\ genericPromises' = r.gp
         /\ promises' = r.pr
         /\ readerThrew' = (readerThrew \/ r.threw)
         /\ mismatchLog' = mismatchLog \cup r.mismatch
  /\ reader' = [reader EXCEPT !.pc = "fp_unlock"]
  /\ UNCHANGED <<readerFrame, promiseMutex>>

\* fulfillPromise returns (or unwinds); the lock_guard is destroyed.
FulfillUnlock ==
  /\ reader.pc = "fp_unlock"
  /\ promiseMutex' = LockGuardRelease(promiseMutex)
  /\ reader' = ReaderIdle
  /\ UNCHANGED <<readerFrame, genericPromises, promises, readerThrew,
                 mismatchLog>>

\* ------------------------------------------------------------ id allocator
\* The wrapper classes that keep a nextValidOrderId counter.
SessionWrappers == {"IBBaseWrapper", "IBWrapperBase", "IBWrapperMonitor"}

\* constexpr int BASE_ORDER_ID = 0, the value the counter is constructed
\* with (IBWrapperMonitor writes the literal 0).
BASE_ORDER_ID == 0

\* seen counts the announcements handled so far.
\* The ids TWS announces; it may announce any of them again.
AnnouncedIds == 1..2

AnnounceIdle == [pc |-> "idle", newId |-> 0, seen |-> 0]

\* nextValidOrderId++ on the std::atomic<int>: one fetch-add; the value
\* of the expression is the counter before the increment.
PostIncrement(counter) == [value |-> counter, counter |-> counter + 1]

\* int nextOrderId() { return nextValidOrderId++; } on a caller thread.
\* IBWrapperMonitor has no such member.
nextOrderId ==
  /\ wrapper # "IBWrapperMonitor"
  /\ Len(issuedIds) < MaxIdCalls
  /\ LET r == PostIncrement(nextValidOrderId)
     IN  /\ issuedIds' = Append(issuedIds, r.value)
         /\ nextValidOrderId' = r.counter
  /\ UNCHANGED <<requestVars, appVars, connVars, queueVars, announce>>

\* placeSimpleOrder: const int orderId = ib.nextValidOrderId++, then
\* placeOrder(orderId, ...).  The helper takes an IBWrapperBase.
placeSimpleOrder ==
  /\ wrapper = "IBWrapperBase"
  /\ Len(issuedIds) < MaxIdCalls
  /\ LET r == PostIncrement(nextValidOrderId)
     IN  /\ issuedIds' = Append(issuedIds, r.value)
         /\ nextValidOrderId' = r.counter
  /\ UNCHANGED <<requestVars, appVars, connVars, queueVars, announce>>

\* The statements of nextValidId(orderId) in the order they touch the
\* atomic counter.  IBWrapperBase compares, may replace newId by the
\* counter plus one, then stores; the other two classes only store.
NextValidIdSteps(w) ==
  IF w = "IBWrapperBase" THEN <<"compare", "bump", "store">>
                         ELSE <<"store">>

\* The reader thread enters nextValidId(orderId):
\* int newId = static_cast<int>(orderId).
NextValidIdBegin(orderId) ==
  /\ announce.pc = "idle"
  /\ announce.seen < MaxAnnouncements
  /\ announce' = [announce EXCEPT !.pc = NextValidIdSteps(wrapper)[1],
                                  !.newId = orderId]
  /\ UNCHANGED <<requestVars, appVars, connVars, queueVars, nextValidOrderId,
                 issuedIds>>

\* if (newId <= nextValidOrderId): one load of the counter.
NextValidIdCompare ==
  /\ announce.pc = "compare"
  /\ announce' = [announce EXCEPT
                    !.pc = IF announce.newId <= nextValidOrderId
                             THEN "bump" ELSE "store"]
  /\ UNCHANGED <<requestVars, appVars, connVars, queueVars, nextValidOrderId,
                 issuedIds>>

\* newId = nextValidOrderId + 1: a second load of the counter.
NextValidIdBump ==
  /\ announce.pc = "bump"
  /\ announce' = [announce EXCEPT !.pc = "store",
                                  !.newId = nextValidOrderId + 1]
  /\ UNCHANGED <<requestVars, appVars, connVars, queueVars, nextValidOrderId,
                 issuedIds>>

\* nextValidOrderId = newId: the store, and the handler returns.
NextValidIdStore ==
  /\ announce.pc = "store"
  /\ nextValidOrderId' = announce.newId
  /\ announce' = [AnnounceIdle EXCEPT !.seen = announce.seen + 1]
  /\ UNCHANGED <<requestVars, appVars, connVars, queueVars, issuedIds>>

\* ---------------------------------------------------- connection life cycle
\* connect(), disconnect() and ensureConnected() statement by statement on
\* the calling thread, the reader loop (and IBWrapperMonitor's polling
\* loop) step by step on the threads connect() starts.
ThreadIds == 1..MaxThreads

\* Positions of a thread function that has started and not yet returned.
LoopRunning == {"start", "check", "wait", "process"}

PollRunning == {"check", "sleep"}

\* The literal ensureConnected() compares the counter with.
UnsetOrderId == -1

MainIdle ==
  [op |-> "none", pc |-> "idle", ret |-> "none", log |-> "none",
   waited |-> 0]

\* if (client->isConnected()) at the head of connect(); IBWrapperMonitor's
\* connect() has no such test.
AlreadyConnectedIgnored(w, c) == FALSE

AlreadyConnected(w, c) == w # "IBWrapperMonitor" /\ c

\* connect() returns r to its caller: to user code, or to the retry loop
\* of ensureConnected().
ConnectReturn(m, r) ==
  IF m.op = "ensureConnected"
    THEN [m EXCEPT !.pc = IF r THEN "e_wait" ELSE "e_connect",
                   !.waited = 0]
    ELSE [m EXCEPT !.pc = "idle", !.ret = IF r THEN "true" ELSE "false"]

\* disconnect() returns.
DisconnectReturn(m) ==
  IF m.op = "ensureConnected"
    THEN [m EXCEPT !.pc = "e_connect"]
    ELSE [m EXCEPT !.pc = "idle", !.ret = "void"]

\* thread::join() returns once the thread function has returned.
ThreadExitedDetached(l, t) == TRUE

ThreadExited(l, t) == l[t] = "exited"

\* User code calls connect() or disconnect(); ensureConnected() is a
\* template over classes derived from IBBaseWrapper.
MainBegin(op) ==
  /\ aborted = "no"
  /\ main.pc = "idle"
  /\ op = "ensureConnected" => wrapper = "IBBaseWrapper"
  /\ main' = [MainIdle EXCEPT
                !.op = op,
                !.pc = CASE op = "connect" -> "c_check"
                         [] op = "disconnect" -> "d_flag"
                         [] OTHER -> "e_connect"]
  /\ UNCHANGED <<requestVars, appVars, idVars, queueVars, connected, running,
                 reader_thread, polling_thread, loops, pollers, signal,
                 initializing, aborted, adopted>>

\* if (client->isConnected()) { LOG_INFO("Already connected."); return true; }
ConnectCheck ==
  /\ aborted = "no"
  /\ main.pc = "c_check"
  /\ main' = IF AlreadyConnected(wrapper, connected)
               THEN ConnectReturn([main EXCEPT !.log = "Already connected"],
                                  TRUE)
               ELSE [main EXCEPT !.pc = "c_econnect", !.log = "Connecting"]
  /\ UNCHANGED <<requestVars, appVars, idVars, queueVars, connected, running,
                 reader_thread, polling_thread, loops, pollers, signal,
                 initializing, aborted, adopted>>

\* if (!client->eConnect(host, port, clientId)) return false.  TWS takes
\* the connection (ok) or not; for IBWrapperMonitor the handshake of a
\* connection that is taken runs connectAck() before eConnect returns.
ConnectSocket(ok) ==
  /\ aborted = "no"
  /\ main.pc = "c_econnect"
  /\ IF ok
       THEN /\ \E t \in ThreadIds : loops[t] = "unborn"
            /\ connected' = TRUE
            /\ adopted' = FALSE
            /\ main' = [main EXCEPT !.pc = "c_run"]
       ELSE /\ main' = ConnectReturn([main EXCEPT !.log = "Failed to connect"],
                                     FALSE)
            /\ UNCHANGED <<connected, adopted>>
  /\ UNCHANGED <<requestVars, appVars, idVars, queueVars, running, reader_thread,
                 polling_thread, loops, pollers, signal, initializing,
                 aborted>>

\* running = true;
ConnectRun ==
  /\ aborted = "no"
  /\ main.pc = "c_run"
  /\ running' = TRUE
  /\ main' = [main EXCEPT !.pc = "c_thread"]
  /\ UNCHANGED <<requestVars, appVars, idVars, queueVars, connected, reader_thread,
                 polling_thread, loops, pollers, signal, initializing,
                 aborted, adopted>>

\* reader_thread = std::thread([this]() { ... }): move-assignment to a
\* handle that is still joinable calls std::terminate.
ConnectThread ==
  /\ aborted = "no"
  /\ main.pc = "c_thread"
  /\ IF reader_thread # 0
       THEN /\ aborted' = "thread_assign"
            /\ UNCHANGED <<reader_thread, loops, main>>
       ELSE LET t == CHOOSE u \in ThreadIds :
                       /\ loops[u] = "unborn"
                       /\ \A v \in ThreadIds : loops[v] = "unborn" => u <= v
            IN  /\ loops' = [loops EXCEPT ![t] = "start"]
                /\ reader_thread' = t
                /\ main' = [main EXCEPT
                              !.pc = IF wrapper = "IBWrapperMonitor"
                                       THEN "c_poll" ELSE "c_return"]
                /\ UNCHANGED aborted
  /\ UNCHANGED <<requestVars, appVars, idVars, queueVars, connected, running,
                 polling_thread, pollers, signal, initializing, adopted>>

\* IBWrapperMonitor::connectAck: polling_thread = std::thread([this]() ...).
ConnectPoll ==
  /\ aborted = "no"
  /\ main.pc = "c_poll"
  /\ IF polling_thread # 0
       THEN /\ aborted' = "thread_assign"
            /\ UNCHANGED <<polling_thread, pollers, main>>
       ELSE /\ pollers' = [pollers EXCEPT ![reader_thread] = "check"]
            /\ polling_thread' = reader_thread
            /\ main' = [main EXCEPT !.pc = "c_return"]
            /\ UNCHANGED aborted
  /\ UNCHANGED <<requestVars, appVars, idVars, queueVars, connected, running,
                 reader_thread, loops, signal, initializing, adopted>>

\* sleep_for(300ms); return true;  (IBWrapperMonitor: return true)
ConnectDone ==
  /\ aborted = "no"
  /\ main.pc = "c_return"
  /\ main' = ConnectReturn(main, TRUE)
  /\ UNCHANGED <<requestVars, appVars, idVars, queueVars, connected, running,
                 reader_thread, polling_thread, loops, pollers, signal,
                 initializing, aborted, adopted>>

\* disconnect(): running = false;
DisconnectFlag ==
  /\ aborted = "no"
  /\ main.pc = "d_flag"
  /\ running' = FALSE
  /\ main' = [main EXCEPT !.pc = "d_socket"]
  /\ UNCHANGED <<requestVars, appVars, idVars, queueVars, connected, reader_thread,
                 polling_thread, loops, pollers, signal, initializing,
                 aborted, adopted>>

\* if (client && client->isConnected()) { client->eDisconnect(); LOG_INFO }
DisconnectSocket ==
  /\ aborted = "no"
  /\ main.pc = "d_socket"
  /\ connected' = FALSE
  /\ main' = [main EXCEPT !.pc = "d_signal",
                          !.log = IF connected THEN "Disconnected" ELSE @]
  /\ UNCHANGED <<requestVars, appVars, idVars, queueVars, running, reader_thread,
                 polling_thread, loops, pollers, signal, initializing,
                 aborted, adopted>>

\* signal.issueSignal();
DisconnectSignal ==
  /\ aborted = "no"
  /\ main.pc = "d_signal"
  /\ signal' = TRUE
  /\ main' = [main EXCEPT !.pc = "d_join"]
  /\ UNCHANGED <<requestVars, appVars, idVars, queueVars, connected, running,
                 reader_thread, polling_thread, loops, pollers, initializing,
                 aborted, adopted>>

\* if (reader_thread.joinable()) reader_thread.join();
DisconnectJoin ==
  /\ aborted = "no"
  /\ main.pc = "d_join"
  /\ reader_thread # 0 => ThreadExited(loops, reader_thread)
  /\ reader_thread' = 0
  /\ main' = IF wrapper = "IBWrapperMonitor"
               THEN [main EXCEPT !.pc = "d_join_poll"]
               ELSE DisconnectReturn(main)
  /\ UNCHANGED <<requestVars, appVars, idVars, queueVars, connected, running,
                 polling_thread, loops, pollers, signal, initializing,
                 aborted, adopted>>

\* IBWrapperMonitor: if (polling_thread.joinable()) polling_thread.join();
DisconnectJoinPoll ==
  /\ aborted = "no"
  /\ main.pc = "d_join_poll"
  /\ polling_thread # 0 => pollers[polling_thread] = "exited"
  /\ polling_thread' = 0
  /\ main' = DisconnectReturn(main)
  /\ UNCHANGED <<requestVars, appVars, idVars, queueVars, connected, running,
                 reader_thread, loops, pollers, signal, initializing,
                 aborted, adopted>>

\* ensureConnected(): if (!ib.connect(host, port, clientId)) ... continue;
EnsureConnect ==
  /\ aborted = "no"
  /\ main.pc = "e_connect"
  /\ main' = [main EXCEPT !.pc = "c_check"]
  /\ UNCHANGED <<requestVars, appVars, idVars, queueVars, connected, running,
                 reader_thread, polling_thread, loops, pollers, signal,
                 initializing, aborted, adopted>>

\* while (ib.nextValidOrderId == -1 && waitedMs < 8000) { sleep; waitedMs += 100; }
\* one evaluation of the condition, MaxWaitTicks sleeps making the window.
EnsureWait ==
  /\ aborted = "no"
  /\ main.pc = "e_wait"
  /\ main' = IF nextValidOrderId = UnsetOrderId /\ main.waited < MaxWaitTicks
               THEN [main EXCEPT !.waited = @ + 1]
               ELSE [main EXCEPT !.pc = "e_check"]
  /\ UNCHANGED <<requestVars, appVars, idVars, queueVars, connected, running,
                 reader_thread, polling_thread, loops, pollers, signal,
                 initializing, aborted, adopted>>

\* if (ib.nextValidOrderId != -1) { LOG_INFO("Connection verified");
\* ib.initializing = false; reqMarketDataType; return true; }
\* else: LOG_WARN, ib.disconnect(), sleep and retry.
EnsureCheck ==
  /\ aborted = "no"
  /\ main.pc = "e_check"
  /\ IF nextValidOrderId # UnsetOrderId
       THEN /\ initializing' = FALSE
            /\ main' = [main EXCEPT !.pc = "idle", !.ret = "true",
                                    !.log = "Connection verified"]
       ELSE /\ main' = [main EXCEPT !.pc = "d_flag"]
            /\ UNCHANGED initializing
  /\ UNCHANGED <<requestVars, appVars, idVars, queueVars, connected, running,
                 reader_thread, polling_thread, loops, pollers, signal,
                 aborted, adopted>>

\* The reader thread function begins: EReader reader(...); reader.start();
\* signal.issueSignal() (IBWrapperMonitor's issues no signal).
LoopStart(t) ==
  /\ aborted = "no"
  /\ loops[t] = "start"
  /\ loops' = [loops EXCEPT ![t] = "check"]
  /\ signal' = IF wrapper = "IBWrapperMonitor" THEN signal ELSE TRUE
  /\ UNCHANGED <<requestVars, appVars, idVars, queueVars, connected, running,
                 reader_thread, polling_thread, pollers, main, initializing,
                 aborted, adopted>>

\* while (running && client->isConnected()); the function returns when
\* the condition is false.
LoopCheck(t) ==
  /\ aborted = "no"
  /\ loops[t] = "check"
  /\ loops' = [loops EXCEPT
                 ![t] = IF running /\ connected THEN "wait" ELSE "exited"]
  /\ UNCHANGED <<requestVars, appVars, idVars, queueVars, connected, running,
                 reader_thread, polling_thread, pollers, signal, main,
                 initializing, aborted, adopted>>

\* signal.waitForSignal() returns: a signal was issued or the timeout the
\* signal was constructed with (reader_timeout, 100 ms) has passed.
LoopWait(t) ==
  /\ aborted = "no"
  /\ loops[t] = "wait"
  /\ loops' = [loops EXCEPT ![t] = "process"]
  /\ signal' = FALSE
  /\ UNCHANGED <<requestVars, appVars, idVars, queueVars, connected, running,
                 reader_thread, polling_thread, pollers, main, initializing,
                 aborted, adopted>>

\* nextValidId(orderId) run to its end with no other thread in between.
NextValidIdResult(w, counter, orderId) ==
  IF w = "IBWrapperBase" /\ orderId <= counter THEN counter + 1 ELSE orderId

\* What one reader.processMsgs() hands to the wrapper: nothing, the
\* nextValidId of the connection, an openOrder or an openOrderEnd whose
\* user callback returns or throws.
ReaderEvents ==
  {[kind |-> "none", orderId |-> 0, throws |-> FALSE]}
    \cup {[kind |-> "nextValidId", orderId |-> x, throws |-> FALSE] :
            x \in AnnouncedIds}
    \cup {[kind |-> k, orderId |-> 0, throws |-> b] :
            k \in {"openOrder", "openOrderEnd"}, b \in BOOLEAN}

\* openOrder returns at once while initializing; otherwise it calls
\* onOpenOrder(info).  openOrderEnd calls onOpenOrdersComplete() first.
CallbackThrows(ev, init) ==
  /\ ev.throws
  /\ ev.kind = "openOrder" => ~init

\* reader.processMsgs() inside the loop: the lambda has no handler, so an
\* exception that processMsgs lets through leaves the thread function and
\* std::terminate is called; escapes says whether it is let through.
LoopProcess(t, ev, escapes) ==
  /\ aborted = "no"
  /\ loops[t] = "process"
  /\ ev.kind = "nextValidId" => (connected /\ ~adopted)
  /\ ev.kind \in {"openOrder", "openOrderEnd"} => wrapper # "IBWrapperMonitor"
  /\ escapes => CallbackThrows(ev, initializing)
  /\ IF ev.kind = "nextValidId"
       THEN /\ nextValidOrderId' =
                 NextValidIdResult(wrapper, nextValidOrderId, ev.orderId)
            /\ adopted' = TRUE
       ELSE UNCHANGED <<nextValidOrderId, adopted>>
  /\ IF escapes
       THEN /\ aborted' = "exception"
            /\ UNCHANGED loops
       ELSE /\ loops' = [loops EXCEPT ![t] = "check"]
            /\ UNCHANGED aborted
  /\ UNCHANGED <<requestVars, appVars, issuedIds, announce, queueVars, connected,
                 running, reader_thread, polling_thread, pollers, signal,
                 main, initializing>>

\* IBWrapperMonitor's polling thread: while (running && isConnected())
PollCheck(t) ==
  /\ aborted = "no"
  /\ pollers[t] = "check"
  /\ pollers' = [pollers EXCEPT
                   ![t] = IF running /\ connected THEN "sleep" ELSE "exited"]
  /\ UNCHANGED <<requestVars, appVars, idVars, queueVars, connected, running,
                 reader_thread, polling_thread, loops, signal, main,
                 initializing, aborted, adopted>>

\* sleep_for(3 s); if (client->isConnected()) client->reqAllOpenOrders();
PollSleep(t) ==
  /\ aborted = "no"
  /\ pollers[t] = "sleep"
  /\ pollers' = [pollers EXCEPT ![t] = "check"]
  /\ UNCHANGED <<requestVars, appVars, idVars, queueVars, connected, running,
                 reader_thread, polling_thread, loops, signal, main,
                 initializing, aborted, adopted>>

\* The server side closes the connection: isConnected() turns false.
ConnectionLost ==
  /\ aborted = "no"
  /\ connected
  /\ connected' = FALSE
  /\ UNCHANGED <<requestVars, appVars, idVars, queueVars, running, reader_thread,
                 polling_thread, loops, pollers, signal, main, initializing,
                 aborted, adopted>>

\* --------------------------------------------------------- ConcurrentQueue
\* push(), pop() and stop() of ConcurrentQueue<T>, one step per statement
\* that takes or gives up m_ or touches cv_.
Producers == 1..NumProducers

Consumers == (NumProducers + 1)..(NumProducers + NumConsumers)

QThreads == Producers \cup Consumers

\* An element is named by the producer that pushed it and its rank among
\* that producer's pushes.
NoElement == [by |-> 0, n |-> 0]

NoPop == [kind |-> "none", v |-> NoElement]

QIdle == [pc |-> "idle", v |-> NoElement, out |-> NoPop, sent |-> 0]

\* q_.front(), then q_.pop().
QBack(q) == q[Len(q)]

QFront(q) == Head(q)

QRest(q) == Tail(q)

\* The predicate of cv_.wait: [&]{ return !q_.empty() || stopped_; }
PopReadyElementOnly(q, stopped) == q # <<>>

PopReady(q, stopped) == q # <<>> \/ stopped

\* if (stopped_ && q_.empty()) throw std::runtime_error("queue stopped");
PopThrowsStopped(q, stopped) == stopped

PopThrows(q, stopped) == stopped /\ q = <<>>

\* A thread calls push(v) with a fresh element.
PushBegin(t) ==
  /\ t \in Producers
  /\ qth[t].pc = "idle"
  /\ qth[t].sent < MaxPushes
  /\ qth' = [qth EXCEPT ![t].pc = "push_lock",
                        ![t].v = [by |-> t, n |-> qth[t].sent + 1],
                        ![t].sent = @ + 1]
  /\ UNCHANGED <<requestVars, appVars, idVars, connVars, q_, stopped_, m_, cvWaiters,
                 pushLog, popLog>>

\* std::lock_guard<std::mutex> lk(m_);
PushLock(t) ==
  /\ qth[t].pc = "push_lock"
  /\ LockFree(m_)
  /\ m_' = <<t>>
  /\ qth' = [qth EXCEPT ![t].pc = "push_q"]
  /\ UNCHANGED <<requestVars, appVars, idVars, connVars, q_, stopped_, cvWaiters,
                 pushLog, popLog>>

\* q_.push(std::move(v)); and the block ends, releasing m_.
PushEnqueue(t) ==
  /\ qth[t].pc = "push_q"
  /\ q_' = Append(q_, qth[t].v)
  /\ pushLog' = Append(pushLog, qth[t].v)
  /\ m_' = <<>>
  /\ qth' = [qth EXCEPT ![t].pc = "push_notify"]
  /\ UNCHANGED <<requestVars, appVars, idVars, connVars, stopped_, cvWaiters, popLog>>

\* cv_.notify_one(): one of the threads blocked in wait, if any, wakes.
PushNotify(t) ==
  /\ qth[t].pc = "push_notify"
  /\ IF cvWaiters = {}
       THEN /\ qth' = [qth EXCEPT ![t].pc = "idle"]
            /\ UNCHANGED cvWaiters
       ELSE \E w \in cvWaiters :
              /\ cvWaiters' = cvWaiters \ {w}
              /\ qth' = [qth EXCEPT ![t].pc = "idle", ![w].pc = "pop_relock"]
  /\ UNCHANGED <<requestVars, appVars, idVars, connVars, q_, stopped_, m_, pushLog,
                 popLog>>

\* A thread calls pop().
PopBegin(t) ==
  /\ t \in Consumers
  /\ qth[t].pc = "idle"
  /\ qth' = [qth EXCEPT ![t].pc = "pop_lock", ![t].out = NoPop]
  /\ UNCHANGED <<requestVars, appVars, idVars, connVars, q_, stopped_, m_, cvWaiters,
                 pushLog, popLog>>

\* std::unique_lock<std::mutex> lk(m_);
PopLock(t) ==
  /\ qth[t].pc = "pop_lock"
  /\ LockFree(m_)
  /\ m_' = <<t>>
  /\ qth' = [qth EXCEPT ![t].pc = "pop_wait"]
  /\ UNCHANGED <<requestVars, appVars, idVars, connVars, q_, stopped_, cvWaiters,
                 pushLog, popLog>>

\* cv_.wait(lk, pred): while (!pred()) wait(lk); wait(lk) releases m_ and
\* blocks in one atomic step.
PopWait(t) ==
  /\ qth[t].pc = "pop_wait"
  /\ IF PopReady(q_, stopped_)
       THEN /\ qth' = [qth EXCEPT ![t].pc = "pop_take"]
            /\ UNCHANGED <<m_, cvWaiters>>
       ELSE /\ m_' = <<>>
            /\ cvWaiters' = cvWaiters \cup {t}
            /\ qth' = [qth EXCEPT ![t].pc = "pop_blocked"]
  /\ UNCHANGED <<requestVars, appVars, idVars, connVars, q_, stopped_, pushLog,
                 popLog>>

\* wait(lk) may return without a notification (spurious wake-up).
PopSpurious(t) ==
  /\ t \in cvWaiters
  /\ cvWaiters' = cvWaiters \ {t}
  /\ qth' = [qth EXCEPT ![t].pc = "pop_relock"]
  /\ UNCHANGED <<requestVars, appVars, idVars, connVars, q_, stopped_, m_, pushLog,
                 popLog>>

\* wait(lk) takes m_ again before it returns; the predicate is re-read.
PopRelock(t) ==
  /\ qth[t].pc = "pop_relock"
  /\ LockFree(m_)
  /\ m_' = <<t>>
  /\ qth' = [qth EXCEPT ![t].pc = "pop_wait"]
  /\ UNCHANGED <<requestVars, appVars, idVars, connVars, q_, stopped_, cvWaiters,
                 pushLog, popLog>>

\* The rest of pop(): throw, or move the front out, q_.pop() and return;
\* lk is destroyed either way.
PopTake(t) ==
  /\ qth[t].pc = "pop_take"
  /\ m_' = <<>>
  /\ IF PopThrows(q_, stopped_)
       THEN /\ qth' = [qth EXCEPT
                         ![t].pc = "idle",
                         ![t].out = [kind |-> "threw", v |-> NoElement]]
            /\ UNCHANGED <<q_, popLog>>
       ELSE /\ qth' = [qth EXCEPT
                         ![t].pc = "idle",
                         ![t].out = [kind |-> "value", v |-> QFront(q_)]]
            /\ q_' = QRest(q_)
            /\ popLog' = Append(popLog, [by |-> t, v |-> QFront(q_),
                                         stopped |-> stopped_])
  /\ UNCHANGED <<requestVars, appVars, idVars, connVars, stopped_, cvWaiters, pushLog>>

\* A thread calls stop(); a second stop() changes nothing and is left out.
StopBegin(t) ==
  /\ t \in Producers
  /\ qth[t].pc = "idle"
  /\ ~stopped_
  /\ \A u \in QThreads : qth[u].pc \notin {"stop_lock", "stop_set"}
  /\ qth' = [qth EXCEPT ![t].pc = "stop_lock"]
  /\ UNCHANGED <<requestVars, appVars, idVars, connVars, q_, stopped_, m_, cvWaiters,
                 pushLog, popLog>>

\* std::lock_guard<std::mutex> lk(m_);
StopLock(t) ==
  /\ qth[t].pc = "stop_lock"
  /\ LockFree(m_)
  /\ m_' = <<t>>
  /\ qth' = [qth EXCEPT ![t].pc = "stop_set"]
  /\ UNCHANGED <<requestVars, appVars, idVars, connVars, q_, stopped_, cvWaiters,
                 pushLog, popLog>>

\* stopped_ = true; and the block ends, releasing m_.
StopSet(t) ==
  /\ qth[t].pc = "stop_set"
  /\ stopped_' = TRUE
  /\ m_' = <<>>
  /\ qth' = [qth EXCEPT ![t].pc = "stop_notify"]
  /\ UNCHANGED <<requestVars, appVars, idVars, connVars, q_, cvWaiters, pushLog,
                 popLog>>

\* The threads cv_.notify_all() wakes: every thread blocked in wait.
NotifyNone(waiters) == {}

NotifyAll(waiters) == waiters

\* cv_.notify_all()
StopNotify(t) ==
  /\ qth[t].pc = "stop_notify"
  /\ cvWaiters' = cvWaiters \ NotifyAll(cvWaiters)
  /\ qth' = [u \in QThreads |->
               IF u = t THEN [qth[u] EXCEPT !.pc = "idle"]
               ELSE IF u \in NotifyAll(cvWaiters)
                 THEN [qth[u] EXCEPT !.pc = "pop_relock"]
               ELSE qth[u]]
  /\ UNCHANGED <<requestVars, appVars, idVars, connVars, q_, stopped_, m_, pushLog,
                 popLog>>

\* --------------------------------------------------------- OrderExecutor
\* One OrderExecutor on a ConcurrentQueue<OrderRequest>.  Its worker is a
\* consumer of the queue; the thread that owns the executor and a strategy
\* thread are its producers.
Owner == 1

Worker == NumProducers + 1

\* The try/catch around execute_(std::move(req)): where the worker is
\* after the call (every exception of the repository is a std::exception).
AfterExecuteNoCatch(threw) == IF threw THEN "exited" ELSE "run"

AfterExecute(threw) == "run"

\* What the steps of the executor itself leave alone.
executorFrame ==
  <<requestVars, idVars, connVars, posVars, monVars, q_, stopped_, m_,
    cvWaiters, pushLog, popLog>>

\* run(): while (running_) { auto req = queue_->pop(); ... } - the test
\* and the entry into pop(), or the end of the loop.
RunLoop ==
  /\ worker_ = "run"
  /\ qth[Worker].pc = "idle"
  /\ qth[Worker].out.kind = "none"
  /\ \/ running_ /\ PopBegin(Worker)
     \/ /\ ~running_
        /\ worker_' = "exited"
        /\ UNCHANGED <<executorFrame, qth, running_, owner, executed>>

\* run(): try { execute_(std::move(req)); } catch (const std::exception&)
RunExecute(threw) ==
  /\ worker_ = "run"
  /\ qth[Worker].pc = "idle"
  /\ qth[Worker].out.kind = "value"
  /\ executed' = Append(executed, [v |-> qth[Worker].out.v, threw |-> threw])
  /\ qth' = [qth EXCEPT ![Worker].out = NoPop]
  /\ worker_' = AfterExecute(threw)
  /\ UNCHANGED <<executorFrame, running_, owner>>

\* run(): pop() threw "queue stopped"; the outer catch ends the thread.
RunStopped ==
  /\ worker_ = "run"
  /\ qth[Worker].pc = "idle"
  /\ qth[Worker].out.kind = "threw"
  /\ worker_' = "exited"
  /\ qth' = [qth EXCEPT ![Worker].out = NoPop]
  /\ UNCHANGED <<executorFrame, running_, owner, executed>>

\* ~OrderExecutor(): running_ = false;
DestroyFlag ==
  /\ owner = "alive"
  /\ qth[Owner].pc = "idle"
  /\ running_' = FALSE
  /\ owner' = "stopping"
  /\ UNCHANGED <<executorFrame, qth, worker_, executed>>

\* ~OrderExecutor(): if (queue_) queue_->stop();
DestroyStop ==
  /\ owner = "stopping"
  /\ StopBegin(Owner)

\* ~OrderExecutor(): if (worker_.joinable()) worker_.join();
DestroyJoin ==
  /\ owner = "stopping"
  /\ stopped_
  /\ qth[Owner].pc = "idle"
  /\ worker_ = "exited"
  /\ owner' = "destroyed"
  /\ UNCHANGED <<executorFrame, qth, running_, worker_, executed>>

\* ------------------------------------------------------ account positions
\* getOpenPositions() and the position / positionEnd callbacks.
POSITION_ID == 5000

\* A Decimal as coefficient and exponent; 0E+1 is a zero too.
Dec(c, x) == [c |-> c, x |-> x]

\* DecimalFunctions::decimalToDouble
decimalToDouble(d) == IF d.x = 0 THEN d.c ELSE d.c * 10

\* if (pos == 0.0) return;
ZeroPositionNever(pos) == FALSE

ZeroPosition(pos) == pos = 0

\* IB::Accounts::PositionInfo info{account, contract, pos, avgCost};
PositionInfo(contract, pos) == [contract |-> contract, position |-> pos]

\* std::vector<PositionInfo>, the result of a positions request.
PositionValue(buf) ==
  [kind |-> "PositionVector", snap |-> MarketSnapshot, chains |-> <<>>,
   positions |-> buf]

\* What the steps of the positions request leave alone.
positionsFrame ==
  <<wrapper, carried, snapshotData, reqIdToContract, subscribed,
    snapshotFlagged, detailsRequested, cancelMktData, readyVars, chainVars,
    mutexVars, idVars, connVars, queueVars, execVars, monVars>>

\* A caller thread enters getOpenPositions(ib).
getOpenPositions(c) ==
  /\ pc[c] = "idle"
  /\ nextHandle < MaxCalls
  /\ wrapper = "IBBaseWrapper"
  /\ nextHandle' = nextHandle + 1
  /\ call' = [call EXCEPT ![c] = [helper |-> "getOpenPositions",
                                  id |-> POSITION_ID, streaming |-> FALSE,
                                  h |-> nextHandle + 1]]
  /\ pc' = [pc EXCEPT ![c] = GetSyncSteps[1]]
  /\ UNCHANGED <<positionsFrame, genericPromises, promises, readerThrew,
                 mismatchLog, result, posVars>>

\* getSync: sendRequest();  the lambda's ib.client->reqPositions().
reqPositions(c) ==
  /\ pc[c] = "send"
  /\ call[c].helper = "getOpenPositions"
  /\ positionsFeed' = [open |-> TRUE, pending |-> positionsFeed.pending + 1]
  /\ pc' = [pc EXCEPT ![c] = StepAfter("send")]
  /\ UNCHANGED <<positionsFrame, genericPromises, promises, readerThrew,
                 mismatchLog, nextHandle, call, result, positionBuffer,
                 positionLog>>

\* position(account, contract, position, avgCost)
position(contract, d) ==
  /\ positionsFeed.open
  /\ Len(positionLog) < MaxPositions
  /\ positionLog' = Append(positionLog, [contract |-> contract, size |-> d])
  /\ positionBuffer' =
       IF ZeroPosition(decimalToDouble(d)) THEN positionBuffer
       ELSE Append(positionBuffer,
                   PositionInfo(contract, decimalToDouble(d)))
  /\ UNCHANGED <<positionsFrame, genericPromises, promises, readerThrew,
                 mismatchLog, nextHandle, pc, call, result, positionsFeed>>

\* positionEnd(): fulfillPromise(POSITION_ID, positionBuffer), then
\* positionBuffer.clear().
positionEnd ==
  /\ positionsFeed.pending > 0
  /\ positionsFeed' = [positionsFeed EXCEPT !.pending = @ - 1]
  /\ LET r == fulfillPromise(wrapper, genericPromises, promises,
                             POSITION_ID, "PositionVector",
                             PositionValue(positionBuffer))
     IN  /\ genericPromises' = r.gp
         /\ promises' = r.pr
         /\ readerThrew' = (readerThrew \/ r.threw)
         /\ mismatchLog' = mismatchLog \cup r.mismatch
         /\ positionBuffer' = IF r.threw THEN positionBuffer ELSE <<>>
  /\ positionLog' = <<>>
  /\ UNCHANGED <<positionsFrame, nextHandle, pc, call, result>>

\* --------------------------------------------------------- order monitor
\* The order callbacks of IBWrapperMonitor; each runs on the reader thread
\* under ordersMutex from its first statement to its last.
OrderStatuses == {"Submitted", "PreSubmitted", "Filled"}

\* What the callbacks of the monitor leave alone.
monitorFrame == <<requestVars, idVars, connVars, queueVars, posVars, execVars>>

\* openOrder(orderId, contract, order, orderState)
openOrder(orderId, status) ==
  /\ knownOrderStatuses' = MapPut(knownOrderStatuses, orderId, status)
  /\ reported' = reported \cup {orderId}
  /\ UNCHANGED <<monitorFrame, previous, flagged>>

\* orderStatus(orderId, status, filled, remaining, avgFillPrice, ...)
orderStatus(orderId, status) ==
  /\ knownOrderStatuses' = MapPut(knownOrderStatuses, orderId, status)
  /\ UNCHANGED <<monitorFrame, previous, reported, flagged>>

\* The orders of the previous snapshot the loop of openOrderEnd warns
\* about: those with no entry in knownOrderStatuses.
MissingOrders(prev, known) == {o \in DOMAIN prev : o \notin DOMAIN known}

\* openOrderEnd(): warn about and erase the missing orders, then
\* previous = knownOrderStatuses.
openOrderEnd ==
  /\ flagged' = MissingOrders(previous, knownOrderStatuses)
  /\ previous' = knownOrderStatuses
  /\ reported' = {}
  /\ UNCHANGED <<monitorFrame, knownOrderStatuses>>

\* ------------------------------------------------------ the specification
\* Inputs the reader thread draws in Spec.
SpecHelpers ==
  {"getSnapshot", "getQuotes", "getGreeksOnly", "showCurrentPnL",
   "getContractDetails"}

SpecFields == {"BID", "ASK"}

SpecPrices == {-2, 0, 2}

SpecOptionTicks ==
  {OptionTick(1, 1, 1, 1, 1, 1, 1),
   OptionTick(1, DBL_MAX, 1, 1, 1, 1, 1),
   OptionTick(DBL_MAX, 1, 1, 1, 1, 1, 1),
   OptionTick(1, 1, DBL_MAX, 1, 1, 1, 1),
   OptionTick(DBL_MAX, DBL_MAX, DBL_MAX, DBL_MAX, DBL_MAX, DBL_MAX, 1)}

\* The engine right after construction, whatever the wrapper class.
EngineIdle ==
  /\ genericPromises = <<>>
  /\ promises = [h \in Handles |-> NoPromise]
  /\ nextHandle = 0
  /\ snapshotData = <<>>
  /\ reqIdToContract = {}
  /\ subscribed = {}
  /\ snapshotFlagged = {}
  /\ detailsRequested = {}
  /\ cancelMktData = [i \in Ids |-> 0]
  /\ readerThrew = FALSE
  /\ mismatchLog = {}
  /\ pc = [c \in Callers |-> "idle"]
  /\ call = [c \in Callers |-> NoCall]
  /\ result = [c \in Callers |-> NoResult]
  /\ carried = [i \in Ids |-> NothingCarried]

InitEngine ==
  /\ wrapper \in Wrappers
  /\ EngineIdle

InitReadyIdle ==
  /\ rdSnap = MarketSnapshot
  /\ rdOut = "unknown"

InitChain ==
  /\ optionChains = <<>>
  /\ chainPending = [i \in Ids |-> 0]
  /\ chainParts = [i \in Ids |-> {}]

InitMutex ==
  /\ promiseMutex = <<>>
  /\ reader = ReaderIdle

InitIds ==
  /\ nextValidOrderId = BASE_ORDER_ID
  /\ issuedIds = <<>>
  /\ announce = AnnounceIdle

InitConn ==
  /\ connected = FALSE
  /\ running = FALSE
  /\ reader_thread = 0
  /\ polling_thread = 0
  /\ loops = [t \in ThreadIds |-> "unborn"]
  /\ pollers = [t \in ThreadIds |-> "unborn"]
  /\ signal = FALSE
  /\ main = MainIdle
  /\ initializing = TRUE
  /\ aborted = "no"
  /\ adopted = FALSE

InitQueue ==
  /\ q_ = <<>>
  /\ stopped_ = FALSE
  /\ m_ = <<>>
  /\ cvWaiters = {}
  /\ qth = [t \in QThreads |-> QIdle]
  /\ pushLog = <<>>
  /\ popLog = <<>>

InitPositions ==
  /\ positionBuffer = <<>>
  /\ positionsFeed = [open |-> FALSE, pending |-> 0]
  /\ positionLog = <<>>

InitExecutor ==
  /\ running_ = TRUE
  /\ worker_ = "run"
  /\ owner = "alive"
  /\ executed = <<>>

InitMonitor ==
  /\ knownOrderStatuses = <<>>
  /\ previous = <<>>
  /\ reported = {}
  /\ flagged = {}

InitSession ==
  /\ InitIds
  /\ InitConn
  /\ InitQueue
  /\ InitPositions
  /\ InitExecutor
  /\ InitMonitor

Init ==
  InitEngine /\ InitReadyIdle /\ InitChain /\ InitMutex /\ InitSession

CallerStep ==
  \E c \in Callers :
    \/ \E helper \in SpecHelpers, id \in Ids, streaming \in BOOLEAN :
         StartCall(c, helper, id, streaming)
    \/ GetSyncCreate(c)
    \/ GetSyncSend(c)
    \/ GetSyncSend2(c)
    \/ GetSyncSendThrows(c)
    \/ GetSyncReturn(c)
    \/ GetSyncTimeout(c)

ReaderStep ==
  \E id \in Ids :
    \/ \E field \in SpecFields, price \in SpecPrices :
         tickPrice(id, field, price)
    \/ \E t \in SpecOptionTicks : tickOptionComputation(id, t)
    \/ tickSnapshotEnd(id)
    \/ contractDetails(id)

Next == CallerStep \/ ReaderStep

Spec == Init /\ [][Next]_vars

\* ------------------------------------------- readiness as a pure function
\* SpecReady draws one snapshot from ReadyInputs and calls readyForFulfill()
\* on it.
ReadyPrices == {-2, 0, 2}

ReadyGreeks == {0, 1}

ReadyDeltas == {-1, 0, 1}

ReadyInputs ==
  {[MarketSnapshot EXCEPT !.bid = b, !.ask = a, !.last = l, !.hasGreeks = g,
                          !.impliedVol = iv, !.optPrice = op, !.delta = d,
                          !.mode = m] :
     b \in ReadyPrices, a \in ReadyPrices, l \in ReadyPrices, g \in BOOLEAN,
     iv \in ReadyGreeks, op \in ReadyGreeks, d \in ReadyDeltas,
     m \in PriceTypes}

BoolName(b) == IF b THEN "true" ELSE "false"

InitReady ==
  /\ InitEngine
  /\ wrapper = "IBBaseWrapper"
  /\ rdSnap \in ReadyInputs
  /\ rdOut = "unknown"
  /\ InitChain
  /\ InitMutex
  /\ InitSession

\* bool MarketSnapshot::readyForFulfill() const
CallReadyForFulfill ==
  /\ rdOut = "unknown"
  /\ rdOut' = BoolName(readyForFulfill(rdSnap))
  /\ rdSnap' = rdSnap
  /\ UNCHANGED <<engineVars, chainVars, mutexVars, sessionVars>>

NextReady == CallReadyForFulfill

SpecReady == InitReady /\ [][NextReady]_vars

\* ------------------------------------------------ option-chain requests
\* SpecChain runs option-chain requests only: callers in getOptionChain,
\* the reader in the two securityDefinitionOptionalParameter callbacks.
ChainExchanges == {"SMART", "CBOE"}

\* The expirations and strikes one part carries.
ChainPartData ==
  {[expirations |-> {"E1"}, strikes |-> {10}],
   [expirations |-> {"E2"}, strikes |-> {20}]}

SpecChainParts ==
  {ChainInfo(e, d.expirations, d.strikes) :
     e \in ChainExchanges, d \in ChainPartData}

CallerStepChain ==
  \E c \in Callers :
    \/ \E id \in Ids : StartCall(c, "getOptionChain", id, FALSE)
    \/ GetSyncCreate(c)
    \/ GetSyncSend(c)
    \/ GetSyncReturn(c)
    \/ GetSyncTimeout(c)

ReaderStepChain ==
  \E id \in Ids :
    \/ \E part \in SpecChainParts :
         securityDefinitionOptionalParameter(id, part)
    \/ securityDefinitionOptionalParameterEnd(id)

NextChain == CallerStepChain \/ ReaderStepChain

SpecChain == Init /\ [][NextChain]_vars

\* ------------------------------------------------- the lock, step by step
\* SpecMutex runs contract-details requests with createPromise,
\* contractDetails and fulfillPromise taken one statement at a time.
CallerStepMutex ==
  \E c \in Callers :
    \/ \E id \in Ids : StartCall(c, "getContractDetails", id, FALSE)
    \/ CreateBegin(c)
    \/ CreateLock(c)
    \/ CreateInsert(c)
    \/ CreateUnlock(c)
    \/ GetSyncSend(c)
    \/ GetSyncReturn(c)
    \/ GetSyncTimeout(c)

ReaderStepMutex ==
  \/ \E id \in Ids : DetailsBegin(id)
  \/ DetailsLock
  \/ DetailsTry
  \/ DetailsUnlock
  \/ FulfillLock
  \/ FulfillBody
  \/ FulfillUnlock

NextMutex == CallerStepMutex \/ ReaderStepMutex

SpecMutex == Init /\ [][NextMutex]_vars

\* ------------------------------------------------- the id allocator alone
\* SpecIds runs callers drawing ids against nextValidId announcements on
\* the reader thread.
InitAllocator ==
  /\ wrapper \in SessionWrappers
  /\ EngineIdle
  /\ InitReadyIdle
  /\ InitChain
  /\ InitMutex
  /\ InitSession

NextIds ==
  \/ nextOrderId
  \/ placeSimpleOrder
  \/ \E orderId \in AnnouncedIds : NextValidIdBegin(orderId)
  \/ NextValidIdCompare
  \/ NextValidIdBump
  \/ NextValidIdStore

SpecIds == InitAllocator /\ [][NextIds]_vars

\* --------------------------------------------------- the connection alone
\* SpecConn runs one controlling thread against the threads it starts and
\* against the server closing the connection.
MainStep ==
  \/ \E op \in {"connect", "disconnect", "ensureConnected"} : MainBegin(op)
  \/ ConnectCheck
  \/ \E ok \in BOOLEAN : ConnectSocket(ok)
  \/ ConnectRun
  \/ ConnectThread
  \/ ConnectPoll
  \/ ConnectDone
  \/ DisconnectFlag
  \/ DisconnectSocket
  \/ DisconnectSignal
  \/ DisconnectJoin
  \/ DisconnectJoinPoll
  \/ EnsureConnect
  \/ EnsureWait
  \/ EnsureCheck

LoopStep(t) ==
  \/ LoopStart(t)
  \/ LoopCheck(t)
  \/ LoopWait(t)
  \/ \E ev \in ReaderEvents, escapes \in BOOLEAN : LoopProcess(t, ev, escapes)

PollStep(t) ==
  \/ PollCheck(t)
  \/ PollSleep(t)

NextConn ==
  \/ MainStep
  \/ \E t \in ThreadIds : LoopStep(t)
  \/ \E t \in ThreadIds : PollStep(t)
  \/ ConnectionLost

SpecConn == InitAllocator /\ [][NextConn]_vars

\* The scheduler runs every thread that can take a step; nothing is
\* assumed about TWS.
SpecConnFair ==
  /\ SpecConn
  /\ WF_vars(MainStep)
  /\ \A t \in ThreadIds : WF_vars(LoopStep(t)) /\ WF_vars(PollStep(t))

\* -------------------------------------------------------- the queue alone
\* SpecQueue runs producers and consumers on one ConcurrentQueue.
InitQueueAlone == Init /\ wrapper = "IBBaseWrapper"

NextQueue ==
  \E t \in QThreads :
    \/ PushBegin(t)
    \/ PushLock(t)
    \/ PushEnqueue(t)
    \/ PushNotify(t)
    \/ PopBegin(t)
    \/ PopLock(t)
    \/ PopWait(t)
    \/ PopSpurious(t)
    \/ PopRelock(t)
    \/ PopTake(t)
    \/ StopBegin(t)
    \/ StopLock(t)
    \/ StopSet(t)
    \/ StopNotify(t)

SpecQueue == InitQueueAlone /\ [][NextQueue]_vars

\* The statements of a call already entered.  A thread inside push(), pop()
\* or stop() keeps being scheduled, and a thread waiting for m_ gets it when
\* it is released again and again (strong fairness); entering a call and a
\* spurious wake-up are left to chance.
QueueProgress(t) ==
  \/ PushLock(t)
  \/ PushEnqueue(t)
  \/ PushNotify(t)
  \/ PopLock(t)
  \/ PopWait(t)
  \/ PopRelock(t)
  \/ PopTake(t)
  \/ StopLock(t)
  \/ StopSet(t)
  \/ StopNotify(t)

\* push() calls entered so far, by all producers together.
PushesBegun ==
  Len(pushLog)
    + Cardinality({p \in Producers : qth[p].pc \in {"push_lock", "push_q"}})

\* The same steps as NextQueue, with MaxPushes bounding the push() calls of
\* all producers together.
NextQueueFair ==
  \E t \in QThreads :
    \/ PushBegin(t) /\ PushesBegun < MaxPushes
    \/ PushLock(t)
    \/ PushEnqueue(t)
    \/ PushNotify(t)
    \/ PopBegin(t)
    \/ PopLock(t)
    \/ PopWait(t)
    \/ PopSpurious(t)
    \/ PopRelock(t)
    \/ PopTake(t)
    \/ StopBegin(t)
    \/ StopLock(t)
    \/ StopSet(t)
    \/ StopNotify(t)

SpecQueueFair ==
  /\ InitQueueAlone
  /\ [][NextQueueFair]_vars
  /\ \A t \in QThreads : SF_vars(QueueProgress(t))

\* ------------------------------------------------ the positions request
\* SpecPositions runs getOpenPositions callers against the position and
\* positionEnd callbacks of IBAccountWrapper.
PositionContracts == {"AAPL", "MSFT"}

PositionSizes == {Dec(0, 1), Dec(1, 0), Dec(-1, 1)}

NextPositions ==
  \/ \E c \in Callers :
       \/ getOpenPositions(c)
       \/ GetSyncCreate(c)
       \/ reqPositions(c)
       \/ GetSyncReturn(c)
  \/ \E contract \in PositionContracts, d \in PositionSizes :
       position(contract, d)
  \/ positionEnd

SpecPositions == InitQueueAlone /\ [][NextPositions]_vars

\* ------------------------------------------------------ the order monitor
\* SpecMonitor runs the polling cycles of IBWrapperMonitor: openOrder and
\* orderStatus events in any order, closed by openOrderEnd.
NextMonitor ==
  \/ \E orderId \in Ids, status \in OrderStatuses :
       \/ openOrder(orderId, status)
       \/ orderStatus(orderId, status)
  \/ openOrderEnd

InitMonitorAlone == InitAllocator /\ wrapper = "IBWrapperMonitor"

SpecMonitor == InitMonitorAlone /\ [][NextMonitor]_vars

\* ------------------------------------------------------ the order executor
\* SpecExecutor runs one OrderExecutor: producers push requests, the worker
\* pops and executes them, the owner destroys the executor at some point.
ProducerStep(t) ==
  \/ (t = Owner => owner = "alive") /\ PushBegin(t)
  \/ PushLock(t)
  \/ PushEnqueue(t)
  \/ PushNotify(t)

WorkerStep ==
  \/ RunLoop
  \/ PopLock(Worker)
  \/ PopWait(Worker)
  \/ PopSpurious(Worker)
  \/ PopRelock(Worker)
  \/ PopTake(Worker)
  \/ \E threw \in BOOLEAN : RunExecute(threw)
  \/ RunStopped

DestroyStep ==
  \/ DestroyFlag
  \/ DestroyStop
  \/ StopLock(Owner)
  \/ StopSet(Owner)
  \/ StopNotify(Owner)
  \/ DestroyJoin

NextExecutor ==
  \/ \E t \in Producers : ProducerStep(t)
  \/ WorkerStep
  \/ DestroyStep

SpecExecutor == InitQueueAlone /\ [][NextExecutor]_vars

\* Every thread keeps being scheduled and a thread waiting for m_ gets it
\* in the end; a new push() and a spurious wake-up are left to chance, and
\* execute_ returns or throws.
SpecExecutorFair ==
  /\ SpecExecutor
  /\ \A t \in QThreads : SF_vars(QueueProgress(t))
  /\ WF_vars(RunLoop \/ RunStopped \/ \E threw \in BOOLEAN : RunExecute(threw))
  /\ WF_vars(DestroyStop \/ DestroyJoin)

\* ------------------------------------------------------------------ claims

\* C1: a promise is set at most once.  Once a promise is satisfied no
\* callback calls set_value on it again (setCalls stays 1) and the value
\* it delivered is never overwritten; the object only changes when the
\* caller has consumed the future and the promise is freed.
C1_PromiseSetAtMostOnce ==
  [][\A h \in Handles :
       /\ promises'[h].setCalls <= 1
       /\ promises[h].state = "set" =>
            (promises'[h] = promises[h] \/ promises'[h].state = "freed")]_vars

\* A streaming record was delivered, and a later tick for the same id has
\* changed the record while the delivered value is still what it was.
C1_Witness ==
  \E h \in Handles :
    /\ promises[h].state = "set"
    /\ promises[h].setCalls = 1
    /\ promises[h].id \in DOMAIN snapshotData
    /\ snapshotData[promises[h].id].fulfilled
    /\ snapshotData[promises[h].id].bid # promises[h].value.snap.bid

\* C2: in getSync the promise is registered before sendRequest() runs.
\* Whenever a caller leaves the sendRequest() statement, the promise object
\* of this call exists and was inserted under the call's reqId.
C2_RegisteredBeforeSend ==
  [][\A c \in Callers :
       (pc[c] = "send" /\ pc'[c] # "send") =>
          /\ promises[call[c].h].state # "none"
          /\ promises[call[c].h].id = call[c].id]_vars

\* A caller has sent its request and waits, its promise found under its id.
C2_Witness ==
  \E c \in Callers :
    /\ pc[c] = "wait"
    /\ call[c].id \in DOMAIN genericPromises
    /\ genericPromises[call[c].id] = call[c].h
    /\ promises[call[c].h].state = "pending"

\* C3 (as claimed): for every market-data helper the promise and the
\* snapshotData record of reqId both exist when reqMktData is sent.
C3_RecordAndPromiseBeforeSend ==
  [][\A c \in Callers :
       (pc[c] = "send" /\ pc'[c] \notin {"send", "idle"}
        /\ IsMarketHelper(call[c].helper)) =>
          /\ call[c].id \in DOMAIN genericPromises
          /\ call[c].id \in DOMAIN snapshotData]_vars

\* C4 (as claimed): createPromise never replaces the entry of an id that is
\* registered and not yet delivered.
C4_NoSilentOverwrite ==
  [][\A id \in DOMAIN genericPromises :
       (promises[genericPromises[id]].state = "pending"
        /\ id \in DOMAIN genericPromises') =>
          genericPromises'[id] = genericPromises[id]]_vars

\* C5 (as claimed): a caller waiting in getSync can always be released,
\* by a delivered result or by the timeout of its bounded wait.
C5_WaitIsBounded ==
  \A c \in Callers :
    pc[c] = "wait" => ENABLED (GetSyncReturn(c) \/ GetSyncTimeout(c))

\* C6 (as claimed): when getSync leaves on a timeout, the registration of
\* this call is no longer in genericPromises.
C6_TimeoutRemovesEntry ==
  [][\A c \in Callers :
       (pc[c] = "wait" /\ pc'[c] = "idle"
        /\ promises[call[c].h].state = "pending") =>
          ~(\E id \in DOMAIN genericPromises' :
              genericPromises'[id] = call[c].h)]_vars

\* C7 (as claimed): when sendRequest() throws, the registration of this
\* call is removed before the exception leaves getSync.
C7_SendFailureRemovesEntry ==
  [][\A c \in Callers :
       (pc[c] = "send" /\ pc'[c] = "idle") =>
          ~(\E id \in DOMAIN genericPromises' :
              genericPromises'[id] = call[c].h)]_vars

\* C8 (as claimed): a type mismatch fails its request: the entry of the
\* promise the mismatch was logged for is removed and its caller is
\* released (the promise is no longer pending); no exception escapes.
C8_MismatchFailsRequest ==
  /\ ~readerThrew
  /\ \A h \in mismatchLog :
       /\ ~(\E id \in DOMAIN genericPromises : genericPromises[id] = h)
       /\ promises[h].state # "pending"

C10_GreeksOnlyReady ==
  (rdOut # "unknown" /\ rdSnap.mode = "GREEKS_ONLY") =>
     rdOut = BoolName(rdSnap.hasGreeks /\ rdSnap.impliedVol > 0
                      /\ rdSnap.optPrice > 0 /\ rdSnap.delta # 0)

C12_ReadinessMonotone ==
  [][\A id \in Ids :
       LET TickStep ==
             \/ \E f \in SpecFields, p \in SpecPrices : tickPrice(id, f, p)
             \/ \E t \in SpecOptionTicks : tickOptionComputation(id, t)
       IN  (/\ TickStep
            /\ id \in DOMAIN snapshotData
            /\ id \in DOMAIN snapshotData'
            /\ readyForFulfill(snapshotData[id])) =>
             readyForFulfill(snapshotData'[id])]_vars

\* C13 (as claimed): an accepted tickOptionComputation that carries the
\* DBL_MAX sentinel for impliedVol, gamma, vega, theta or undPrice leaves
\* the record's previous value of that field unchanged.
C13_SentinelLeavesField ==
  [][\A id \in Ids, t \in SpecOptionTicks :
       (/\ tickOptionComputation(id, t)
        /\ ~OptionTickIgnored(t)
        /\ id \in DOMAIN snapshotData
        /\ snapshotData[id].mode # "QUOTES_ONLY"
        /\ id \in DOMAIN snapshotData') =>
          \A F \in {"impliedVol", "gamma", "vega", "theta", "undPrice"} :
            t[F] = DBL_MAX => snapshotData'[id][F] = snapshotData[id][F]]_vars

\* C14 (as claimed): a callback whose id has no registered promise is
\* dropped.  Here: a securityDefinitionOptionalParameter event for such
\* an id leaves optionChains unchanged and creates no entry for the id.
C14_UnknownIdDropped ==
  [][\A id \in Ids :
       (/\ \E part \in SpecChainParts :
             securityDefinitionOptionalParameter(id, part)
        /\ id \notin DOMAIN genericPromises) =>
          /\ optionChains' = optionChains
          /\ genericPromises' = genericPromises
          /\ snapshotData' = snapshotData]_vars

\* C15: cancelMktData(id) is issued exactly once for each delivered
\* one-shot record.  A step issues at most one cancel for an id; it issues
\* one only while removing the id's one-shot record (so not again for the
\* same registration, whose record is gone); and every tickPrice,
\* tickOptionComputation or tickSnapshotEnd that delivers and removes a
\* one-shot record issues one.
C15_CancelExactlyOnce ==
  [][\A id \in Ids :
       LET ReaderOnId ==
             \/ \E f \in SpecFields, p \in SpecPrices : tickPrice(id, f, p)
             \/ \E t \in SpecOptionTicks : tickOptionComputation(id, t)
             \/ tickSnapshotEnd(id)
           Removed == /\ id \in DOMAIN snapshotData
                      /\ ~snapshotData[id].streaming
                      /\ id \notin DOMAIN snapshotData'
       IN  /\ cancelMktData'[id] \in {cancelMktData[id], cancelMktData[id] + 1}
           /\ cancelMktData'[id] = cancelMktData[id] + 1 => Removed
           /\ (ReaderOnId /\ Removed) =>
                cancelMktData'[id] = cancelMktData[id] + 1]_vars

\* A one-shot request was delivered, its record is gone and exactly one
\* cancelMktData was issued for its id.
C15_Witness ==
  \E h \in Handles :
    /\ promises[h].state = "set"
    /\ promises[h].value.kind = "MarketSnapshot"
    /\ ~promises[h].value.snap.streaming
    /\ promises[h].id \notin DOMAIN snapshotData
    /\ cancelMktData[promises[h].id] = 1

\* C16: after a one-shot delivery the id is in neither map.  Whenever a
\* callback satisfies a promise with a non-streaming MarketSnapshot, the
\* promise's id is afterwards absent from genericPromises and from
\* snapshotData.
C16_OneShotRemoved ==
  [][\A h \in Handles :
       (/\ promises[h].state = "pending"
        /\ promises'[h].state = "set"
        /\ promises'[h].value.kind = "MarketSnapshot"
        /\ ~promises'[h].value.snap.streaming) =>
          /\ promises'[h].id \notin DOMAIN genericPromises'
          /\ promises'[h].id \notin DOMAIN snapshotData']_vars

\* A one-shot request was delivered by tickSnapshotEnd with partial data
\* (the record never became ready) and its id is gone from both maps.
C16_Witness ==
  \E h \in Handles :
    /\ promises[h].state = "set"
    /\ promises[h].value.kind = "MarketSnapshot"
    /\ ~promises[h].value.snap.streaming
    /\ ~promises[h].value.snap.fulfilled
    /\ promises[h].id \notin DOMAIN genericPromises
    /\ promises[h].id \notin DOMAIN snapshotData

\* C17: a tickPrice or tickOptionComputation on a streaming record never
\* issues cancelMktData and never removes the record.  If it delivers, the
\* record is left with fulfilled = true; once the record is fulfilled,
\* later ticks leave it fulfilled and touch no promise (no second
\* delivery).
C17_StreamingKeptNoCancel ==
  [][\A id \in Ids :
       LET TickStep ==
             \/ \E f \in SpecFields, p \in SpecPrices : tickPrice(id, f, p)
             \/ \E t \in SpecOptionTicks : tickOptionComputation(id, t)
       IN  (/\ TickStep
            /\ id \in DOMAIN snapshotData
            /\ snapshotData[id].streaming) =>
             /\ cancelMktData' = cancelMktData
             /\ id \in DOMAIN snapshotData'
             /\ promises' # promises => snapshotData'[id].fulfilled
             /\ snapshotData[id].fulfilled =>
                  /\ snapshotData'[id].fulfilled
                  /\ promises' = promises
                  /\ genericPromises' = genericPromises]_vars

\* A streaming request was delivered without a cancel, and a later tick
\* has updated the kept record beyond the delivered value.
C17_Witness ==
  \E h \in Handles :
    /\ promises[h].state = "set"
    /\ promises[h].value.snap.streaming
    /\ promises[h].id \in DOMAIN snapshotData
    /\ snapshotData[promises[h].id].streaming
    /\ snapshotData[promises[h].id].fulfilled
    /\ snapshotData[promises[h].id].ask # promises[h].value.snap.ask
    /\ cancelMktData[promises[h].id] = 0

\* C18: promiseMutex is never held across a wait or a send, and is never
\* re-acquired by its holder.  No caller holds the lock while it executes
\* sendRequest() or waits on its future; the reader does not hold it when
\* it reaches a lock_guard in contractDetails or fulfillPromise; and
\* whoever holds it is inside a critical section, whose next step does
\* not block.
C18_LockNeverHeldWhileBlocked ==
  /\ \A c \in Callers :
       pc[c] \in {"idle", "create", "cp_lock", "send", "send2", "wait"} =>
         promiseMutex # <<c>>
  /\ reader.pc \in {"idle", "cd_lock", "fp_lock"} =>
       promiseMutex # <<ReaderThread>>
  /\ promiseMutex = <<ReaderThread>> =>
       ENABLED (DetailsTry \/ DetailsUnlock \/ FulfillBody \/ FulfillUnlock)
  /\ \A c \in Callers :
       promiseMutex = <<c>> => ENABLED (CreateInsert(c) \/ CreateUnlock(c))

\* A caller waits on its future while the reader thread holds the lock
\* inside fulfillPromise and another caller is queued for the lock in
\* createPromise.
C18_Witness ==
  /\ promiseMutex = <<ReaderThread>>
  /\ reader.pc = "fp_body"
  /\ \E c \in Callers : pc[c] = "wait"
  /\ \E c \in Callers : pc[c] = "cp_lock"

\* C19: every access to genericPromises happens under promiseMutex.  A
\* step that changes the map is taken while the lock is held, by the
\* holder alone; and a thread positioned at a lookup, insert or erase of
\* the map holds the lock.
C19_MapAccessUnderLock ==
  [][/\ genericPromises' # genericPromises =>
          /\ promiseMutex # <<>>
          /\ promiseMutex' = promiseMutex
          /\ promiseMutex = <<ReaderThread>> => pc' = pc
          /\ \A c \in Callers :
               promiseMutex = <<c>> =>
                 /\ reader' = reader
                 /\ \A d \in Callers \ {c} : pc'[d] = pc[d]
     /\ \A c \in Callers : pc[c] = "cp_insert" => promiseMutex = <<c>>
     /\ reader.pc \in {"cd_try", "fp_body"} =>
          promiseMutex = <<ReaderThread>>]_vars

\* The reader thread has erased a delivered entry under the lock while a
\* caller stands at the lock_guard of createPromise.
C19_Witness ==
  /\ promiseMutex = <<ReaderThread>>
  /\ reader.pc = "fp_unlock"
  /\ \E h \in Handles : promises[h].state = "set"
  /\ \E c \in Callers : pc[c] = "cp_lock"

\* C20 (as claimed): the reader thread is the only writer of snapshotData
\* and reqIdToContract.  While a market-data subscription is open, so that
\* a reader-thread callback may be working on these maps, no step of a
\* caller thread changes either map.
C20_ReaderSoleWriter ==
  [][(subscribed # {} /\ pc' # pc) =>
       /\ snapshotData' = snapshotData
       /\ reqIdToContract' = reqIdToContract]_vars

\* C21 (as claimed): the ids handed out by nextValidOrderId++ are pairwise
\* distinct over the whole run, whatever nextValidId announcements
\* interleave with the calls.
C21_IdsPairwiseDistinct ==
  \A i, j \in 1..Len(issuedIds) : i # j => issuedIds[i] # issuedIds[j]

\* C22 (as claimed): nextValidOrderId never decreases, in none of the
\* three wrapper classes, whatever is announced and whatever interleaves.
C22_CounterNeverDecreases ==
  [][nextValidOrderId' >= nextValidOrderId]_vars

C25_DisconnectTerminates ==
  (main.op = "disconnect" /\ main.pc # "idle")
    ~> (main.op = "disconnect" /\ main.pc = "idle")

\* C26 (as claimed): ensureConnected() reports a verified connection
\* (returns true, clears initializing) only when the nextValidId of the
\* current connection has been adopted; when the wait window ends without
\* it, ensureConnected() goes on to disconnect() and retries.
C26_VerifiedOnlyAfterAnnouncement ==
  [][(main.pc = "e_check" /\ main' # main)
       => IF adopted
            THEN main'.pc = "idle" /\ main'.ret = "true" /\ ~initializing'
            ELSE main'.pc = "d_flag" /\ initializing' = initializing]_vars

\* C28 (as claimed): an exception raised inside a callback handler is
\* contained: it never leaves the reader thread function, so the reader
\* loop is not ended by it and goes on to its next check.
C28_ReaderSurvivesFailure ==
  [][\A t \in ThreadIds :
       loops[t] = "process" => aborted' # "exception"]_vars

\* C27: an option-chain promise is satisfied only in a
\* securityDefinitionOptionalParameterEnd step for an id with a staged
\* entry; the value delivered is the whole staged aggregate, and the
\* staging entry of that id is gone after the step.  The part callbacks
\* satisfy nothing.
C27_ChainDeliveredAtEnd ==
  [][\A h \in Handles :
       (promises[h].state = "pending" /\ promises'[h].state = "set")
         => \E id \in Ids :
              /\ securityDefinitionOptionalParameterEnd(id)
              /\ id \in DOMAIN optionChains
              /\ id \in DOMAIN genericPromises
              /\ genericPromises[id] = h
              /\ promises'[h].value.kind = "ChainInfoVector"
              /\ promises'[h].value.chains = optionChains[id]
              /\ id \notin DOMAIN optionChains'
              /\ promises'[h].setCalls = 1]_vars

\* An aggregate of two exchanges, one of them merged from two parts, has
\* been delivered and its staging entry removed; the caller still waits.
C27_Witness ==
  \E h \in Handles, c \in Callers :
    /\ promises[h].state = "set"
    /\ Len(promises[h].value.chains) = 2
    /\ \E i \in 1..2 :
         Cardinality(promises[h].value.chains[i].expirations) = 2
    /\ promises[h].id \notin DOMAIN optionChains
    /\ pc[c] = "wait"
    /\ call[c].h = h

\* C29: ConcurrentQueue is FIFO and delivers each element exactly once,
\* with several producers and several consumers: the elements pop() has
\* removed, in the order it removed them, are the first elements q_.push
\* took, in that order; none is delivered twice and the elements of one
\* producer come out in the order that producer pushed them.
C29_QueueFifoExactlyOnce ==
  /\ Len(popLog) <= Len(pushLog)
  /\ \A i \in 1..Len(popLog) : popLog[i].v = pushLog[i]
  /\ \A i, j \in 1..Len(popLog) : i # j => popLog[i].v # popLog[j].v
  /\ \A i, j \in 1..Len(popLog) :
       (i < j /\ popLog[i].v.by = popLog[j].v.by)
         => popLog[i].v.n < popLog[j].v.n
  /\ \A t \in Consumers :
       qth[t].out.kind = "value"
         => \E i \in 1..Len(popLog) :
              popLog[i].by = t /\ popLog[i].v = qth[t].out.v

\* Both producers have pushed twice, both consumers have popped, three
\* elements are out and one is still queued.
C29_Witness ==
  /\ Len(pushLog) = 4
  /\ Len(popLog) = 3
  /\ Len(q_) = 1
  /\ \E i, j \in 1..3 : popLog[i].by # popLog[j].by
  /\ pushLog[1].by # pushLog[2].by

\* C30: pop() returns an element only from a non-empty queue, and it is
\* the front; it throws "queue stopped" only when the queue is stopped
\* and empty, so what is queued when stop() is called is still popped.
C30_PopNeverFromEmpty ==
  [][\A t \in Consumers :
       (qth[t].pc = "pop_take" /\ qth'[t].pc = "idle")
         => /\ qth'[t].out.kind = "threw" => (stopped_ /\ q_ = <<>>)
            /\ qth'[t].out.kind = "value"
                 => (q_ # <<>> /\ qth'[t].out.v = Head(q_)
                     /\ q_' = Tail(q_))
            /\ qth'[t].out.kind \in {"threw", "value"}]_vars

\* An element queued before stop() was popped after it, and a later pop()
\* on the stopped, empty queue threw.
C30_Witness ==
  /\ stopped_
  /\ q_ = <<>>
  /\ \E i \in 1..Len(popLog) : popLog[i].stopped
  /\ \E t \in Consumers : qth[t].pc = "idle" /\ qth[t].out.kind = "threw"

\* C40 (as claimed): connect() never assigns a new thread to reader_thread
\* while the handle is still joinable: when connect() reaches the
\* assignment the handle owns no thread, and the process is never aborted
\* by the assignment.
C40_NoAssignOverJoinable ==
  /\ main.pc = "c_thread" => reader_thread = 0
  /\ aborted # "thread_assign"

\* C31: no wake-up of ConcurrentQueue is lost.  Once stopped_ is set, a
\* consumer blocked in the wait of pop() eventually returns from pop() with
\* an element or with the exception; and a consumer blocked while an
\* element is in q_ eventually leaves the wait, unless the element is
\* taken by another consumer first.
C31_NoLostWakeup ==
  \A t \in Consumers :
    /\ (stopped_ /\ t \in cvWaiters)
          ~> (qth[t].pc = "idle" /\ qth[t].out.kind \in {"value", "threw"})
    /\ (t \in cvWaiters /\ q_ # <<>>) ~> (t \notin cvWaiters \/ q_ = <<>>)

\* Every consumer was blocked when stop() ran and has been woken by its
\* notify_all.
C31_Witness ==
  /\ stopped_
  /\ q_ = <<>>
  /\ \A t \in Consumers : qth[t].pc = "pop_relock"
  /\ \E p \in Producers : qth[p].pc = "idle" /\ qth[p].sent = 0

\* C32: the aggregate delivered for an option-chain request holds exactly
\* one ChainInfo for each exchange reported for the id since its staging
\* entry was created, and that ChainInfo's expirations and strikes are the
\* unions of the sets carried by all parts received for the exchange; the
\* aggregate depends on the set of parts only, not on their order.
C32_AggregateIsUnionPerExchange ==
  [][\A h \in Handles, id \in Ids :
       (/\ securityDefinitionOptionalParameterEnd(id)
        /\ promises[h].state = "pending"
        /\ promises'[h].state = "set") =>
          LET chs == promises'[h].value.chains
              parts == chainParts[id]
              Of(ex) == {p \in parts : p.exchange = ex}
          IN  /\ {chs[i].exchange : i \in 1..Len(chs)}
                   = {p.exchange : p \in parts}
              /\ \A i, j \in 1..Len(chs) :
                   chs[i].exchange = chs[j].exchange => i = j
              /\ \A i \in 1..Len(chs) :
                   /\ chs[i].expirations =
                        UNION {p.expirations : p \in Of(chs[i].exchange)}
                   /\ chs[i].strikes =
                        UNION {p.strikes : p \in Of(chs[i].exchange)}]_vars

\* Two aggregates were delivered under distinct ids, each with both
\* exchanges and both parts of every exchange, the exchanges staged in
\* opposite orders.
C32_Witness ==
  \E h, g \in Handles :
    /\ h # g
    /\ promises[h].state = "set"
    /\ promises[g].state = "set"
    /\ Len(promises[h].value.chains) = 2
    /\ Len(promises[g].value.chains) = 2
    /\ promises[h].value.chains[1].exchange
         = promises[g].value.chains[2].exchange
    /\ \A i \in 1..2 :
         /\ Cardinality(promises[h].value.chains[i].expirations) = 2
         /\ Cardinality(promises[g].value.chains[i].strikes) = 2

\* C33: tickSnapshotEnd(id) for a registered record always removes the
\* record from snapshotData.  When the record was already delivered the
\* step delivers nothing; when it was not, the MarketSnapshot promise
\* pending under the id is satisfied with the record as it stands (marked
\* fulfilled only when ready), also when readyForFulfill() is false.
C33_SnapshotEndRemovesAndDelivers ==
  [][\A id \in Ids :
       (tickSnapshotEnd(id) /\ id \in DOMAIN snapshotData) =>
         LET snap == snapshotData[id]
             sent == [snap EXCEPT !.fulfilled = readyForFulfill(snap)]
         IN  /\ id \notin DOMAIN snapshotData'
             /\ snap.fulfilled =>
                  /\ promises' = promises
                  /\ genericPromises' = genericPromises
                  /\ cancelMktData' = cancelMktData
             /\ (/\ ~snap.fulfilled
                 /\ id \in DOMAIN genericPromises
                 /\ promises[genericPromises[id]].type = "MarketSnapshot"
                 /\ promises[genericPromises[id]].state = "pending") =>
                  /\ promises'[genericPromises[id]].state = "set"
                  /\ promises'[genericPromises[id]].value
                       = SnapshotValue(sent)
                  /\ promises'[genericPromises[id]].setCalls = 1]_vars

\* A partial snapshot (not ready, not marked fulfilled) has been delivered
\* by tickSnapshotEnd and the record is gone.
C33_Witness ==
  \E h \in Handles :
    /\ promises[h].state = "set"
    /\ promises[h].value.kind = "MarketSnapshot"
    /\ ~readyForFulfill(promises[h].value.snap)
    /\ ~promises[h].value.snap.fulfilled
    /\ promises[h].value.snap.bid > 0
    /\ promises[h].id \notin DOMAIN snapshotData

\* C34: a tickOptionComputation whose six model values are all DBL_MAX, or
\* whose delta or optPrice is DBL_MAX, changes nothing: the record keeps
\* every field and hasGreeks, nothing is delivered, no cancel is issued
\* and no record is removed.
C34_SentinelTickChangesNothing ==
  [][\A id \in Ids, t \in SpecOptionTicks :
       (/\ tickOptionComputation(id, t)
        /\ \/ \A F \in {"impliedVol", "delta", "gamma", "vega", "theta",
                          "optPrice"} : t[F] = DBL_MAX
           \/ t.delta = DBL_MAX
           \/ t.optPrice = DBL_MAX) =>
          /\ snapshotData' = snapshotData
          /\ promises' = promises
          /\ genericPromises' = genericPromises
          /\ cancelMktData' = cancelMktData]_vars

\* The ticks of the claim arrive for a subscribed id whose GREEKS_ONLY
\* record waits for its first Greeks and whose promise is pending: a merged
\* tick would write the record and deliver.
C34_Witness ==
  \E id \in Ids :
    /\ id \in subscribed
    /\ id \in DOMAIN snapshotData
    /\ snapshotData[id].mode = "GREEKS_ONLY"
    /\ ~snapshotData[id].hasGreeks
    /\ ~snapshotData[id].fulfilled
    /\ id \in DOMAIN genericPromises
    /\ promises[genericPromises[id]].state = "pending"
    /\ \E t \in SpecOptionTicks :
         ENABLED tickOptionComputation(id, t) /\ t.optPrice = DBL_MAX

\* C39 (as claimed): the value delivered to a market-data request holds
\* only what events merged after the request's helper prepared the record:
\* no field of the delivered snapshot still carries what an earlier request
\* left in snapshotData under the same id.
C39_NoStaleFieldDelivered ==
  [][\A h \in Handles :
       (/\ promises[h].state = "pending"
        /\ promises'[h].state = "set"
        /\ promises'[h].value.kind = "MarketSnapshot"
        /\ carried'[promises[h].id].h = h) =>
          \A F \in carried'[promises[h].id].fields :
            promises'[h].value.snap[F] = MarketSnapshot[F]]_vars

\* C35: positionEnd() leaves positionBuffer empty whether or not a request
\* is pending, and satisfies the request pending under POSITION_ID with
\* exactly the position events of non-zero size received since the previous
\* positionEnd, in arrival order; no delivered position has size zero.
C35_PositionsDelivered ==
  [][positionEnd =>
       LET nonZero == SelectSeq(positionLog, LAMBDA ev : ev.size.c # 0)
           expected == [i \in 1..Len(nonZero) |->
                          [contract |-> nonZero[i].contract,
                           position |-> decimalToDouble(nonZero[i].size)]]
       IN  /\ positionBuffer' = <<>>
           /\ \A h \in Handles :
                (/\ promises[h].state = "pending"
                 /\ promises[h].type = "PositionVector"
                 /\ POSITION_ID \in DOMAIN genericPromises
                 /\ genericPromises[POSITION_ID] = h) =>
                  /\ promises'[h].state = "set"
                  /\ promises'[h].value.positions = expected
                  /\ \A i \in 1..Len(promises'[h].value.positions) :
                       promises'[h].value.positions[i].position # 0
           /\ \A h \in Handles :
                promises'[h].state = "set" => promises[h].state # "none"]_vars

\* Two positions of different contracts were delivered, and positionEnd
\* has since emptied a buffer again with no request registered.
C35_Witness ==
  \E h \in Handles :
    /\ promises[h].state = "set"
    /\ promises[h].value.kind = "PositionVector"
    /\ Len(promises[h].value.positions) = 2
    /\ promises[h].value.positions[1].contract
         # promises[h].value.positions[2].contract
    /\ promises[h].value.positions[2].position < 0
    /\ positionBuffer = <<>>
    /\ POSITION_ID \notin DOMAIN genericPromises

\* C38 (as claimed): an order of the snapshot taken at the previous
\* openOrderEnd that no openOrder callback reported during the current
\* polling cycle is flagged as cancelled or closed by openOrderEnd.
C38_DisappearedOrderFlagged ==
  [][openOrderEnd =>
       \A o \in DOMAIN previous : o \notin reported => o \in flagged']_vars

====
